---- MODULE Spec2Model ----
(***************************************************************************)
(* PolicyPal backend: the resumable chat pipeline.                         *)
(*                                                                         *)
(* One conversation thread is modelled.  Its persisted checkpoint (the     *)
(* snapshot store row of the thread) is `ckpt'; every HTTP request         *)
(* (POST /chat, POST /chat/resume) is a run `runs[r]' that drives the      *)
(* compiled graph of graph/builder.py and turns its update chunks into     *)
(* SSE events as routers/chat.py does.                                     *)
(*                                                                         *)
(* Graph runtime semantics relied upon (the graph library is not part of   *)
(* the repository; the nodes and the router are written against them):     *)
(*   - a superstep runs every triggered node; a node that returns          *)
(*     Command(goto=X) triggers X in ADDITION to the targets of its        *)
(*     static / conditional edges;                                         *)
(*   - interrupt() on first pass stops the node and records a pending      *)
(*     interrupt; on resume the node body runs again from its start and    *)
(*     interrupt() returns the resume value;                               *)
(*   - writes of finished tasks are saved as pending writes; the           *)
(*     checkpoint advances when every task of the superstep has finished;  *)
(*   - an "updates" chunk is delivered when a task finishes, in completion *)
(*     order; the consumer in _stream_graph stops iterating at its first   *)
(*     terminal chunk, which stops the run there;                          *)
(*   - the messages channel uses the add_messages reducer (append, or      *)
(*     replace the message carrying the same id); every other channel      *)
(*     keeps the last value written;                                       *)
(*   - there is no lock per thread id: runs of one thread interleave.      *)
(***************************************************************************)
EXTENDS Integers, Sequences, FiniteSets, TLC

\* ---------------------------------------------------------------------------
\* Bounds of the model
\* ---------------------------------------------------------------------------

\* number of HTTP requests (chat or resume) issued on the thread
MaxRuns == 3

\* number of POST /chat requests among them
MaxChats == 1

\* ---------------------------------------------------------------------------
\* Values
\* ---------------------------------------------------------------------------

\* Python None
None == "None"

\* app.graph.state.CANCEL_SENTINEL: the reserved resume value for "cancel"
CANCEL_SENTINEL == "__cancel__"

ValidActions == {"summarize", "inquire", "compare", "audit"}

\* insertion order of _ACTION_LABELS (intent_resolver.py:184-189)
ActionMenu == <<"summarize", "inquire", "compare", "audit">>

Nodes ==
    {"intent_resolver", "doc_resolver", "validate_inputs",
     "summarize", "inquire", "compare", "audit", "format_response"}

\* documents of the entity store; every id is a well-formed UUID
DocIds == {"d1", "d2", "d3"}

\* an id the classifier may invent: well-formed, but no document has it
HallucinatedId == "d9"

\* the id of a ready document that belongs to another user
OtherUserDoc == "dx"

\* ---------------------------------------------------------------------------
\* Sequence helpers
\* ---------------------------------------------------------------------------

Range(s) == {s[i] : i \in 1..Len(s)}

\* list(dict.fromkeys(s)): drop later duplicates, keep first-seen order
RECURSIVE Dedup(_)
Dedup(s) ==
    IF s = <<>> THEN <<>>
    ELSE LET init == Dedup(SubSeq(s, 1, Len(s) - 1))
             last == s[Len(s)]
         IN  IF last \in Range(init) THEN init ELSE Append(init, last)

\* a filter that lets every element through
Filter_KeepEverything(s, keep) == s

\* [x for x in s if x in keep]
RECURSIVE Filter(_, _)
Filter(s, keep) ==
    IF s = <<>> THEN <<>>
    ELSE LET rest == Filter(Tail(s), keep)
         IN  IF Head(s) \in keep THEN <<Head(s)>> \o rest ELSE rest

\* ---------------------------------------------------------------------------
\* The environment: user texts, the classification capability, the entity store
\* ---------------------------------------------------------------------------

\* Texts a user can send (request.message / the free text of tiptap_json).
\*   "tags"     only @mentions, no free text
\*   "q_medium" a short question the classifier resolves with medium confidence
\*   "q_low"    a short question naming a document nobody has ("latest ...")
\*   "q_fuzzy"  a short question naming a document by an approximate title
\*   "q_long"   an excerpt of at least 50 characters, resolved with confidence
\*   "q_mixed"  a short question naming one known document and one by an
\*              approximate title
Texts == {"tags", "q_medium", "q_low", "q_fuzzy", "q_long", "q_mixed"}

\* free_text of _walk_tiptap is empty or whitespace (doc_resolver.py:129-131)
FreeTextEmpty(text) == text = "tags"

\* len(re.sub(r"@\S+", "", content).strip()) (validate_inputs.py:68-69)
StrippedLen(text) ==
    CASE text = "tags"     -> 0
      [] text = ""         -> 0
      [] text = "junk"     -> 4
      [] text = "all"      -> 3
      [] text = "q_medium" -> 20
      [] text = "q_low"    -> 30
      [] text = "q_fuzzy"  -> 25
      [] text = "q_long"   -> 60
      [] text = "q_mixed"  -> 28
      [] OTHER             -> 2

\* _TEMPORAL_RE.search(text) (intent_resolver.py:39-42)
TemporalMatch(text) == text = "q_low"

\* titles of the documents table
TitleOf(d) ==
    CASE d = "d1" -> "T1"
      [] d = "d2" -> "T2"
      [] d = "d3" -> "T3"
      [] d = OtherUserDoc -> "TX"

\* ready documents of the user's document set "s1"
SetDocs(set_id) == IF set_id = "s1" THEN <<"d2", "d3">> ELSE <<>>

\* uuid.UUID(str(v)) succeeds
IsUUID(v) == v \in DocIds \cup {HallucinatedId, OtherUserDoc}

\* The parsed DocResolution the classifier returns for a prompt.  The models
\* are built with temperature=0 (llm_service.py:84), so the answer is a
\* function of the prompt, here of the latest user text.
LLMDocResolution(text) ==
    CASE text = "q_medium" ->
            [resolved_uuids |-> <<"d1", "d2", HallucinatedId>>,
             unresolved_names |-> <<>>,
             inference_confidence |-> "medium", has_implicit_refs |-> TRUE]
      [] text = "q_low" ->
            [resolved_uuids |-> <<>>,
             unresolved_names |-> <<"n_miss">>,
             inference_confidence |-> "low", has_implicit_refs |-> FALSE]
      [] text = "q_fuzzy" ->
            [resolved_uuids |-> <<>>,
             unresolved_names |-> <<"n_hit", "n_miss">>,
             inference_confidence |-> "low", has_implicit_refs |-> TRUE]
      [] text = "q_mixed" ->
            [resolved_uuids |-> <<"d2", "d1", HallucinatedId>>,
             unresolved_names |-> <<"n_hit">>,
             inference_confidence |-> "high", has_implicit_refs |-> TRUE]
      [] text = "q_long" ->
            [resolved_uuids |-> <<"d2">>,
             unresolved_names |-> <<>>,
             inference_confidence |-> "high", has_implicit_refs |-> TRUE]
      [] OTHER ->
            [resolved_uuids |-> <<>>,
             unresolved_names |-> <<>>,
             inference_confidence |-> "low", has_implicit_refs |-> FALSE]

\* fuzz.WRatio(name, title): the score of a name against a title, 0..100
WRatio(name, title) ==
    CASE name = "n_hit"  /\ title = "T3" -> 90
      [] name = "n_edge" /\ title = "T2" -> 85
      [] name = "n_near" /\ title = "T1" -> 84
      [] OTHER -> 40

\* the rows _fetch_user_docs returns: id and title of the user's documents
AllDocs == <<[id |-> "d1", title |-> "T1"], [id |-> "d2", title |-> "T2"],
             [id |-> "d3", title |-> "T3"]>>

\* process.extractOne(name, titles, scorer=fuzz.WRatio) on a non-empty list:
\* the first title with the highest score, and that score
ExtractOne(name, titles) ==
    LET i == CHOOSE k \in 1..Len(titles) :
                 \A j \in 1..Len(titles) :
                     \/ WRatio(name, titles[k]) > WRatio(name, titles[j])
                     \/ WRatio(name, titles[k]) = WRatio(name, titles[j]) /\ k <= j
    IN  [title |-> titles[i], score |-> WRatio(name, titles[i])]

\* title_to_uuid[title]: a later row with the same title replaces an earlier
TitleToUuid(all_docs, title) ==
    LET i == CHOOSE k \in 1..Len(all_docs) :
                 /\ all_docs[k].title = title
                 /\ \A j \in 1..Len(all_docs) : all_docs[j].title = title => j <= k
    IN  all_docs[i].id

\* best title, its id and its score among all the user's documents
FuzzyBest(name) ==
    LET best == ExtractOne(name, [i \in 1..Len(AllDocs) |-> AllDocs[i].title])
    IN  [title |-> best.title, id |-> TitleToUuid(AllDocs, best.title),
         score |-> best.score]

\* _FUZZY_THRESHOLD (doc_resolver.py:38)
FUZZY_THRESHOLD == 85

\* length below which the audit text counts as missing (validate_inputs.py:69)
MIN_AUDIT_TEXT == 50

\* ---------------------------------------------------------------------------
\* Pipeline State (AgentState) and its reducers
\* ---------------------------------------------------------------------------

NoMeta == [stamped |-> FALSE, action |-> None, retrieval_confidence |-> None]

HumanMessage(id, content) ==
    [role |-> "human", id |-> id, content |-> content, kwargs |-> NoMeta]

AIMessage(id, content) ==
    [role |-> "ai", id |-> id, content |-> content, kwargs |-> NoMeta]

\* channel values of a thread that has no checkpoint yet
EmptyState ==
    [messages |-> <<>>,
     action |-> None,
     enable_web_search |-> FALSE,
     set_id |-> None,
     explicit_doc_ids |-> <<>>,
     tiptap_json |-> [mentions |-> <<>>, text |-> ""],
     resolved_doc_ids |-> <<>>,
     inference_source |-> "",
     inference_confidence |-> "",
     suggested_doc_ids |-> <<>>,
     unresolved_names |-> <<>>,
     conversation_docs |-> <<>>,
     response |-> "",
     retrieval_confidence |-> "",
     web_search_query |-> None]

\* add_messages applied to one incoming message: a message whose id is
\* already in the list replaces that entry, any other message is appended
AddMessage(msgs, m) ==
    IF \E i \in 1..Len(msgs) : msgs[i].id = m.id
    THEN [i \in 1..Len(msgs) |-> IF msgs[i].id = m.id THEN m ELSE msgs[i]]
    ELSE Append(msgs, m)

RECURSIVE AddMessages(_, _)
AddMessages(msgs, new) ==
    IF new = <<>> THEN msgs
    ELSE AddMessages(AddMessage(msgs, Head(new)), Tail(new))

\* one node's partial state update applied to the channel values
ApplyUpdate(vals, upd) ==
    [k \in DOMAIN vals |->
        IF k \in DOMAIN upd
        THEN IF k = "messages" THEN AddMessages(vals[k], upd[k]) ELSE upd[k]
        ELSE vals[k]]

\* {**a, **b}
DictMerge(a, b) ==
    [t \in (DOMAIN a) \cup (DOMAIN b) |-> IF t \in DOMAIN b THEN b[t] ELSE a[t]]

DictValues(d) == {d[t] : t \in DOMAIN d}

\* content of the last HumanMessage, "" when there is none
RECURSIVE LastHumanText(_)
LastHumanText(msgs) ==
    IF msgs = <<>> THEN ""
    ELSE IF msgs[Len(msgs)].role = "human" THEN msgs[Len(msgs)].content
    ELSE LastHumanText(SubSeq(msgs, 1, Len(msgs) - 1))

\* index of the last AIMessage, 0 when there is none
RECURSIVE LastAIIndex(_)
LastAIIndex(msgs) ==
    IF msgs = <<>> THEN 0
    ELSE IF msgs[Len(msgs)].role = "ai" THEN Len(msgs)
    ELSE LastAIIndex(SubSeq(msgs, 1, Len(msgs) - 1))

\* ---------------------------------------------------------------------------
\* What a node hands back to the graph runtime
\* ---------------------------------------------------------------------------

\* no resume value is available to interrupt(): the node is on its first pass
NoResume == "<no-resume>"

NoInterrupt ==
    [interrupt_type |-> "", message |-> "", has_options |-> FALSE, options |-> <<>>]

\* return <dict>
Update(upd) ==
    [kind |-> "update", upd |-> upd, goto |-> {}, intr |-> NoInterrupt, gate |-> ""]

\* the node took the resume branch of gate `gate' and returned <dict>
Resumed(upd, gate) ==
    [kind |-> "update", upd |-> upd, goto |-> {}, intr |-> NoInterrupt, gate |-> gate]

\* the node took the cancel branch: Command(update=<dict>, goto="format_response")
Cancelled(upd, gate) ==
    [kind |-> "cancel", upd |-> upd, goto |-> {"format_response"},
     intr |-> NoInterrupt, gate |-> gate]

\* an interrupt whose payload carries an empty option list
Interrupt_EmptyOptions(gate, type, message, has_options, options) ==
    [kind |-> "interrupt", upd |-> <<>>, goto |-> {},
     intr |-> [interrupt_type |-> type, message |-> message,
               has_options |-> has_options, options |-> <<>>],
     gate |-> gate]

\* interrupt(payload) on first pass
Interrupt(gate, type, message, has_options, options) ==
    [kind |-> "interrupt", upd |-> <<>>, goto |-> {},
     intr |-> [interrupt_type |-> type, message |-> message,
               has_options |-> has_options, options |-> options],
     gate |-> gate]

\* the node raised an exception
Raise == [kind |-> "raise", upd |-> <<>>, goto |-> {}, intr |-> NoInterrupt, gate |-> ""]

\* resume_val in (None, CANCEL_SENTINEL)
IsCancel(resume_val) == resume_val \in {None, CANCEL_SENTINEL}

\* ---------------------------------------------------------------------------
\* LLMService.invoke_structured (services/llm_service.py)
\* ---------------------------------------------------------------------------

\* _SPECIFIC_TOPIC_RE.search(text) (intent_resolver.py:49-53)
SpecificTopicMatch(text) == text \in {"q_medium", "q_low"}

\* The parsed IntentClassification the classifier returns; pass 2 sees the
\* last messages as context and may answer differently from pass 1.
LLMIntent(text, pass) ==
    CASE text = "q_medium" ->
            [action |-> "summarize",
             confidence |-> IF pass = 1 THEN "medium" ELSE "high",
             enable_web_search |-> FALSE, multi_action_detected |-> FALSE,
             detected_actions |-> <<"summarize">>]
      [] text = "q_low" ->
            [action |-> "inquire", confidence |-> "low",
             enable_web_search |-> TRUE, multi_action_detected |-> FALSE,
             detected_actions |-> <<"inquire">>]
      [] text = "q_fuzzy" ->
            [action |-> "compare", confidence |-> "high",
             enable_web_search |-> FALSE, multi_action_detected |-> TRUE,
             detected_actions |-> <<"compare", "audit">>]
      [] text = "q_long" ->
            [action |-> "audit", confidence |-> "high",
             enable_web_search |-> FALSE, multi_action_detected |-> FALSE,
             detected_actions |-> <<"audit">>]
      [] OTHER ->
            [action |-> "summarize", confidence |-> "high",
             enable_web_search |-> FALSE, multi_action_detected |-> TRUE,
             detected_actions |-> <<"summarize">>]

\* invoke_structured returns LLMResult(parsed, tokens_used, cost_usd), a
\* NamedTuple with exactly these three fields (llm_service.py:34-42, 150)
invoke_structured(parsed) ==
    [parsed |-> parsed, tokens_used |-> 0, cost_usd |-> 0]

\* ---------------------------------------------------------------------------
\* Node: intent_resolver (graph/nodes/intent_resolver.py)
\* ---------------------------------------------------------------------------

IntentCancelMsg == "intent_cancel"

\* options of the multi-action gate (intent_resolver.py:193-201)
MultiActionOptions(detected_actions) ==
    LET options == Filter(detected_actions, ValidActions)
    IN  IF Len(options) < 2 THEN ActionMenu ELSE options

\* Gates of intent_resolver, given the final classification `c'
\* (intent_resolver.py:191-253)
IntentGates(c, merged_web, resume_val, fresh) ==
    IF c.multi_action_detected
    THEN IF resume_val = NoResume
         THEN Interrupt("multi_intent", "action_choice", "one_action_at_a_time",
                        TRUE, MultiActionOptions(c.detected_actions))
         ELSE IF IsCancel(resume_val)
         THEN Cancelled([response |-> IntentCancelMsg,
                         messages |-> <<AIMessage(fresh, IntentCancelMsg)>>],
                        "multi_intent")
         ELSE Resumed([action |-> resume_val, enable_web_search |-> merged_web],
                      "multi_intent")
    ELSE IF c.confidence = "low"
    THEN IF resume_val = NoResume
         THEN Interrupt("low_confidence", "action_choice", "please_choose_action",
                        TRUE, ActionMenu)
         ELSE IF IsCancel(resume_val)
         THEN Cancelled([response |-> IntentCancelMsg,
                         messages |-> <<AIMessage(fresh, IntentCancelMsg)>>],
                        "low_confidence")
         ELSE Resumed([action |-> resume_val, enable_web_search |-> merged_web],
                      "low_confidence")
    ELSE Update([action |-> c.action, enable_web_search |-> merged_web])

\* the node without its explicit-action return: every turn is classified
intent_resolver_NoFastPath(state, resume_val, fresh, llm_ok) ==
    LET last_message_text == LastHumanText(state.messages)
        python_web_flag == TemporalMatch(last_message_text)
    IN
    IF ~llm_ok
    THEN Raise
    ELSE
    LET pass1 == invoke_structured(LLMIntent(last_message_text, 1))
    IN
    IF "action" \notin DOMAIN pass1
    THEN Raise
    ELSE IntentGates(pass1, state.enable_web_search \/ python_web_flag
                                \/ pass1.enable_web_search, resume_val, fresh)

\* The node.  invoke_structured raises when the call fails after its retry
\* (llm_ok is false).  On the classification path the value bound to
\* `classification' is the LLMResult itself (intent_resolver.py:140, no
\* `.parsed'), so the first attribute read, classification.action at line
\* 144, raises AttributeError unless the result carries that attribute.
intent_resolver(state, resume_val, fresh, llm_ok) ==
    LET frontend_action == state.action
        frontend_web == state.enable_web_search
        last_message_text == LastHumanText(state.messages)
        python_web_flag == TemporalMatch(last_message_text)
    IN
    IF frontend_action \notin {None, ""}
    THEN Update([action |-> frontend_action,
                 enable_web_search |-> frontend_web \/ python_web_flag])
    ELSE IF ~llm_ok
    THEN Raise
    ELSE
    LET pass1 == invoke_structured(LLMIntent(last_message_text, 1))
    IN
    IF "action" \notin DOMAIN pass1
    THEN Raise
    ELSE
    LET pass2 == IF pass1.confidence \in {"low", "medium"}
                 THEN invoke_structured(LLMIntent(last_message_text, 2))
                 ELSE pass1
        final == IF pass2.action = "summarize" /\ SpecificTopicMatch(last_message_text)
                 THEN [pass2 EXCEPT !.action = "inquire"]
                 ELSE pass2
        merged_web == frontend_web \/ python_web_flag \/ final.enable_web_search
    IN  IntentGates(final, merged_web, resume_val, fresh)

\* ---------------------------------------------------------------------------
\* Node: doc_resolver (graph/nodes/doc_resolver.py)
\* ---------------------------------------------------------------------------

\* action.capitalize() inside the canned message (doc_resolver.py:428-431)
DocCancelMsg(action) ==
    CASE action = "summarize" -> "doc_cancel_Summarize"
      [] action = "inquire"   -> "doc_cancel_Inquire"
      [] action = "compare"   -> "doc_cancel_Compare"
      [] action = "audit"     -> "doc_cancel_Audit"
      [] OTHER                -> "doc_cancel_other"

\* the matcher accepting a best score only above the threshold
RECURSIVE fuzzy_match_StrictThreshold(_, _)
fuzzy_match_StrictThreshold(unresolved_names, all_docs) ==
    IF all_docs = <<>> \/ unresolved_names = <<>>
    THEN [matched_uuids |-> <<>>, still_unresolved |-> unresolved_names]
    ELSE LET name == Head(unresolved_names)
             titles == [i \in 1..Len(all_docs) |-> all_docs[i].title]
             result == ExtractOne(name, titles)
             rest == fuzzy_match_StrictThreshold(Tail(unresolved_names), all_docs)
         IN  IF result.score > FUZZY_THRESHOLD
             THEN [rest EXCEPT !.matched_uuids =
                                  <<TitleToUuid(all_docs, result.title)>> \o @]
             ELSE IF result.score < FUZZY_THRESHOLD
             THEN [rest EXCEPT !.still_unresolved = <<name>> \o @]
             ELSE rest

\* _fuzzy_match (doc_resolver.py:156-191)
RECURSIVE fuzzy_match(_, _)
fuzzy_match(unresolved_names, all_docs) ==
    IF all_docs = <<>> \/ unresolved_names = <<>>
    THEN [matched_uuids |-> <<>>, still_unresolved |-> unresolved_names]
    ELSE LET name == Head(unresolved_names)
             titles == [i \in 1..Len(all_docs) |-> all_docs[i].title]
             result == ExtractOne(name, titles)
             rest == fuzzy_match(Tail(unresolved_names), all_docs)
         IN  IF result.score >= FUZZY_THRESHOLD
             THEN [rest EXCEPT !.matched_uuids =
                                  <<TitleToUuid(all_docs, result.title)>> \o @]
             ELSE [rest EXCEPT !.still_unresolved = <<name>> \o @]

\* Stage 3 of doc_resolver (doc_resolver.py:350-365): the merged ids and the
\* names left after the fuzzy fallback, which runs only on unresolved names
FuzzyStage(merged_uuids, unresolved_names, all_docs) ==
    IF unresolved_names # <<>>
    THEN LET m == fuzzy_match(unresolved_names, all_docs)
         IN  [ran |-> TRUE,
              fuzzy_uuids |-> m.matched_uuids,
              merged_uuids |-> IF m.matched_uuids # <<>>
                               THEN Dedup(merged_uuids \o m.matched_uuids)
                               ELSE merged_uuids,
              remaining_unresolved |-> m.still_unresolved]
    ELSE [ran |-> FALSE, fuzzy_uuids |-> <<>>, merged_uuids |-> merged_uuids,
          remaining_unresolved |-> unresolved_names]

\* _fuzzy_match on all the user's documents: the matched ids
FuzzyMatched(names) == fuzzy_match(names, AllDocs).matched_uuids

\* _fuzzy_match on all the user's documents: the names that stay unresolved
FuzzyUnresolved(names) == fuzzy_match(names, AllDocs).still_unresolved

\* Stages 1a-3 of doc_resolver for a turn that is not a pure mention: the
\* values the gates and base_result are built from (doc_resolver.py:260-397)
DocResolve(state) ==
    LET doc_mentions == Dedup(state.tiptap_json.mentions)
        explicit_uuids == IF doc_mentions = <<>> /\ state.explicit_doc_ids # <<>>
                          THEN state.explicit_doc_ids
                          ELSE doc_mentions
        latest_message_text ==
            IF state.messages # <<>>
            THEN state.messages[Len(state.messages)].content
            ELSE state.tiptap_json.text
        resolution == invoke_structured(LLMDocResolution(latest_message_text)).parsed
        known_uuids == DictValues(state.conversation_docs) \cup Range(explicit_uuids)
        validated_llm_uuids == Filter(resolution.resolved_uuids, known_uuids)
        merged0 == Dedup(explicit_uuids \o validated_llm_uuids)
        source0 == IF validated_llm_uuids # <<>> \/ explicit_uuids = <<>>
                   THEN "inferred" ELSE "explicit"
        stage3 == FuzzyStage(merged0, resolution.unresolved_names, AllDocs)
        fuzzy_uuids == stage3.fuzzy_uuids
        remaining == stage3.remaining_unresolved
    IN  [explicit_uuids |-> explicit_uuids,
         confidence |-> resolution.inference_confidence,
         validated_llm_uuids |-> validated_llm_uuids,
         merged_uuids |-> stage3.merged_uuids,
         inference_source |-> IF fuzzy_uuids # <<>> THEN "fuzzy_match" ELSE source0,
         remaining_unresolved |-> remaining,
         suggested_doc_ids |-> IF resolution.inference_confidence # "high"
                               THEN validated_llm_uuids ELSE <<>>]

\* base_result (doc_resolver.py:386-397)
DocBaseResult(r) ==
    [resolved_doc_ids |-> r.merged_uuids,
     inference_source |-> r.inference_source,
     inference_confidence |-> r.confidence,
     unresolved_names |-> r.remaining_unresolved,
     suggested_doc_ids |-> r.suggested_doc_ids]

\* the gates with a choose-one interrupt that offers the suggested ids only
DocGates_NoAllOption(state, r, resume_val, fresh) ==
    LET base == DocBaseResult(r)
        action == IF state.action \in {None, ""} THEN "inquire" ELSE state.action
        cancel_upd ==
            DictMerge(base, [inference_confidence |-> "low",
                             response |-> DocCancelMsg(action),
                             messages |-> <<AIMessage(fresh, DocCancelMsg(action))>>])
        high(ids) == DictMerge(base, [resolved_doc_ids |-> ids,
                                      inference_confidence |-> "high"])
    IN
    IF r.confidence = "medium" /\ r.suggested_doc_ids # <<>>
    THEN IF resume_val = NoResume
         THEN Interrupt("choose_one", "doc_choice", "which_document", TRUE,
                        r.suggested_doc_ids)
         ELSE IF IsCancel(resume_val)
         THEN Cancelled(cancel_upd, "choose_one")
         ELSE IF resume_val = "all"
         THEN Resumed(high(Dedup(r.merged_uuids \o r.suggested_doc_ids)), "choose_one")
         ELSE Resumed(high(Dedup(r.merged_uuids \o <<resume_val>>)), "choose_one")
    ELSE IF r.confidence = "low" /\ r.remaining_unresolved # <<>> /\ r.merged_uuids = <<>>
    THEN IF resume_val = NoResume
         THEN Interrupt("ask_for_tag", "text_input", "please_tag_document", FALSE, <<>>)
         ELSE IF IsCancel(resume_val)
         THEN Cancelled(cancel_upd, "ask_for_tag")
         ELSE IF IsUUID(resume_val)
         THEN Resumed(high(Dedup(r.merged_uuids \o <<resume_val>>)), "ask_for_tag")
         ELSE Resumed(DictMerge(base, [inference_confidence |-> "low"]), "ask_for_tag")
    ELSE Update(base)

\* the gates with an ask-for-tag resume that merges whatever text it is given
DocGates_TagAnyText(state, r, resume_val, fresh) ==
    LET base == DocBaseResult(r)
        action == IF state.action \in {None, ""} THEN "inquire" ELSE state.action
        cancel_upd ==
            DictMerge(base, [inference_confidence |-> "low",
                             response |-> DocCancelMsg(action),
                             messages |-> <<AIMessage(fresh, DocCancelMsg(action))>>])
        high(ids) == DictMerge(base, [resolved_doc_ids |-> ids,
                                      inference_confidence |-> "high"])
    IN
    IF r.confidence = "medium" /\ r.suggested_doc_ids # <<>>
    THEN IF resume_val = NoResume
         THEN Interrupt("choose_one", "doc_choice", "which_document", TRUE,
                        r.suggested_doc_ids \o <<"all">>)
         ELSE IF IsCancel(resume_val)
         THEN Cancelled(cancel_upd, "choose_one")
         ELSE IF resume_val = "all"
         THEN Resumed(high(Dedup(r.merged_uuids \o r.suggested_doc_ids)), "choose_one")
         ELSE Resumed(high(Dedup(r.merged_uuids \o <<resume_val>>)), "choose_one")
    ELSE IF r.confidence = "low" /\ r.remaining_unresolved # <<>> /\ r.merged_uuids = <<>>
    THEN IF resume_val = NoResume
         THEN Interrupt("ask_for_tag", "text_input", "please_tag_document", FALSE, <<>>)
         ELSE IF IsCancel(resume_val)
         THEN Cancelled(cancel_upd, "ask_for_tag")
         ELSE IF IsUUID(resume_val)
         THEN Resumed(high(Dedup(r.merged_uuids \o <<resume_val>>)), "ask_for_tag")
         ELSE Resumed(high(Dedup(r.merged_uuids \o <<resume_val>>)), "ask_for_tag")
    ELSE Update(base)

\* the gates with an ask-for-tag gate that does not look at the resolved ids
DocGates_TagGateIgnoresResolved(state, r, resume_val, fresh) ==
    LET base == DocBaseResult(r)
        action == IF state.action \in {None, ""} THEN "inquire" ELSE state.action
        cancel_upd ==
            DictMerge(base, [inference_confidence |-> "low",
                             response |-> DocCancelMsg(action),
                             messages |-> <<AIMessage(fresh, DocCancelMsg(action))>>])
        high(ids) == DictMerge(base, [resolved_doc_ids |-> ids,
                                      inference_confidence |-> "high"])
    IN
    IF r.confidence = "medium" /\ r.suggested_doc_ids # <<>>
    THEN IF resume_val = NoResume
         THEN Interrupt("choose_one", "doc_choice", "which_document", TRUE,
                        r.suggested_doc_ids \o <<"all">>)
         ELSE IF IsCancel(resume_val)
         THEN Cancelled(cancel_upd, "choose_one")
         ELSE IF resume_val = "all"
         THEN Resumed(high(Dedup(r.merged_uuids \o r.suggested_doc_ids)), "choose_one")
         ELSE Resumed(high(Dedup(r.merged_uuids \o <<resume_val>>)), "choose_one")
    ELSE IF r.confidence = "low" /\ r.remaining_unresolved # <<>>
    THEN IF resume_val = NoResume
         THEN Interrupt("ask_for_tag", "text_input", "please_tag_document", FALSE, <<>>)
         ELSE IF IsCancel(resume_val)
         THEN Cancelled(cancel_upd, "ask_for_tag")
         ELSE IF IsUUID(resume_val)
         THEN Resumed(high(Dedup(r.merged_uuids \o <<resume_val>>)), "ask_for_tag")
         ELSE Resumed(DictMerge(base, [inference_confidence |-> "low"]), "ask_for_tag")
    ELSE Update(base)

\* Stage 4, the two gates (doc_resolver.py:399-490)
DocGates(state, r, resume_val, fresh) ==
    LET base == DocBaseResult(r)
        action == IF state.action \in {None, ""} THEN "inquire" ELSE state.action
        cancel_upd ==
            DictMerge(base, [inference_confidence |-> "low",
                             response |-> DocCancelMsg(action),
                             messages |-> <<AIMessage(fresh, DocCancelMsg(action))>>])
        high(ids) == DictMerge(base, [resolved_doc_ids |-> ids,
                                      inference_confidence |-> "high"])
    IN
    IF r.confidence = "medium" /\ r.suggested_doc_ids # <<>>
    THEN IF resume_val = NoResume
         THEN Interrupt("choose_one", "doc_choice", "which_document", TRUE,
                        r.suggested_doc_ids \o <<"all">>)
         ELSE IF IsCancel(resume_val)
         THEN Cancelled(cancel_upd, "choose_one")
         ELSE IF resume_val = "all"
         THEN Resumed(high(Dedup(r.merged_uuids \o r.suggested_doc_ids)), "choose_one")
         ELSE Resumed(high(Dedup(r.merged_uuids \o <<resume_val>>)), "choose_one")
    ELSE IF r.confidence = "low" /\ r.remaining_unresolved # <<>> /\ r.merged_uuids = <<>>
    THEN IF resume_val = NoResume
         THEN Interrupt("ask_for_tag", "text_input", "please_tag_document", FALSE, <<>>)
         ELSE IF IsCancel(resume_val)
         THEN Cancelled(cancel_upd, "ask_for_tag")
         ELSE IF IsUUID(resume_val)
         THEN Resumed(high(Dedup(r.merged_uuids \o <<resume_val>>)), "ask_for_tag")
         ELSE Resumed(DictMerge(base, [inference_confidence |-> "low"]), "ask_for_tag")
    ELSE Update(base)

\* the node without its pure-mention shortcut: every turn is classified
doc_resolver_NoShortcut(state, resume_val, fresh, llm_ok) ==
    IF ~llm_ok
    THEN Raise
    ELSE DocGates(state, DocResolve(state), resume_val, fresh)

\* the node returning early on the resume path, without repeating the
\* resolution that led to the gate
doc_resolver_NoReplayOfResolution(state, resume_val, fresh, llm_ok) ==
    IF resume_val # NoResume
    THEN Update([resolved_doc_ids |-> IF IsUUID(resume_val) THEN <<resume_val>> ELSE <<>>,
                 inference_source |-> "explicit",
                 inference_confidence |-> "high",
                 unresolved_names |-> <<>>,
                 suggested_doc_ids |-> <<>>])
    ELSE IF ~llm_ok
    THEN Raise
    ELSE DocGates(state, DocResolve(state), resume_val, fresh)

\* The node (doc_resolver.py:249-490); the classification call at line 328
\* raises when it fails after its retry (llm_ok is false)
doc_resolver(state, resume_val, fresh, llm_ok) ==
    LET doc_mentions == Dedup(state.tiptap_json.mentions)
        explicit_uuids == IF doc_mentions = <<>> /\ state.explicit_doc_ids # <<>>
                          THEN state.explicit_doc_ids
                          ELSE doc_mentions
    IN
    IF FreeTextEmpty(state.tiptap_json.text) /\ explicit_uuids # <<>>
    THEN Update([resolved_doc_ids |-> explicit_uuids,
                 inference_source |-> "explicit",
                 inference_confidence |-> "high",
                 unresolved_names |-> <<>>,
                 suggested_doc_ids |-> <<>>])
    ELSE IF ~llm_ok
    THEN Raise
    ELSE DocGates(state, DocResolve(state), resume_val, fresh)

\* ---------------------------------------------------------------------------
\* Node: validate_inputs (graph/nodes/validate_inputs.py)
\* ---------------------------------------------------------------------------

\* _DOC_REQUIREMENTS.get(action, 0) (validate_inputs.py:28-33, 106)
MinDocs(action) ==
    CASE action = "summarize" -> 1
      [] action = "inquire"   -> 0
      [] action = "compare"   -> 2
      [] action = "audit"     -> 1
      [] OTHER                -> 0

\* prompt of the count gate (validate_inputs.py:119-124)
NeedDocsMsg(action) ==
    CASE action = "compare"   -> "ask_compare_needs_2_documents"
      [] action = "summarize" -> "ask_tag_document_to_summarize"
      [] OTHER                -> "ask_tag_regulation_document"

\* canned message of the count gate's cancel branch (validate_inputs.py:156-161)
NeedDocsCancelMsg(action) ==
    CASE action = "compare"   -> "cancel_compare_requires_2_documents"
      [] action = "summarize" -> "cancel_need_document_to_summarize"
      [] OTHER                -> "cancel_need_regulation_document"

\* canned message of the audit-text gate's cancel branch (validate_inputs.py:185-188)
AuditTextCancelMsg == "cancel_need_audit_text_and_tag"

\* _is_audit_text_missing (validate_inputs.py:54-70)
IsAuditTextMissing(state) ==
    IF \E i \in 1..Len(state.messages) : state.messages[i].role = "human"
    THEN StrippedLen(LastHumanText(state.messages)) < MIN_AUDIT_TEXT
    ELSE TRUE

\* the node with its two gates evaluated one after the other in one pass
validate_inputs_GatesInSequence(state, resume_val, fresh) ==
    LET action == IF state.action \in {None, ""} THEN "inquire" ELSE state.action
        resolved0 == state.resolved_doc_ids
        set_doc_ids == IF state.set_id \notin {None, ""}
                       THEN SetDocs(state.set_id) ELSE <<>>
        merged == Dedup(resolved0 \o set_doc_ids)
        expanded == set_doc_ids # <<>> /\ merged # resolved0
        resolved1 == IF expanded THEN merged ELSE resolved0
        result0 == IF expanded THEN [resolved_doc_ids |-> resolved1] ELSE <<>>
        result == IF action = "compare" /\ state.enable_web_search
                  THEN DictMerge(result0, [enable_web_search |-> FALSE])
                  ELSE result0
    IN
    IF Len(resolved1) < MinDocs(action)
    THEN IF resume_val = NoResume
         THEN Interrupt("need_more_entities", "text_input", NeedDocsMsg(action),
                        FALSE, <<>>)
         ELSE IF ~IsCancel(resume_val)
         THEN IF IsUUID(resume_val)
              THEN IF action = "audit" /\ IsAuditTextMissing(state)
                   THEN Interrupt("need_audit_text", "text_input", "ask_audit_text",
                                  FALSE, <<>>)
                   ELSE Resumed(DictMerge(result,
                             [resolved_doc_ids |-> Dedup(resolved1 \o <<resume_val>>)]),
                           "need_more_entities")
              ELSE Resumed(result, "need_more_entities")
         ELSE Cancelled(DictMerge(result,
                          [response |-> NeedDocsCancelMsg(action),
                           messages |-> <<AIMessage(fresh, NeedDocsCancelMsg(action))>>]),
                        "need_more_entities")
    ELSE IF action = "audit" /\ IsAuditTextMissing(state)
    THEN IF resume_val = NoResume
         THEN Interrupt("need_audit_text", "text_input", "ask_audit_text", FALSE, <<>>)
         ELSE IF ~IsCancel(resume_val)
         THEN Resumed(DictMerge(result,
                        [messages |-> <<HumanMessage(fresh, resume_val)>>]),
                      "need_audit_text")
         ELSE Cancelled(DictMerge(result,
                          [response |-> AuditTextCancelMsg,
                           messages |-> <<AIMessage(fresh, AuditTextCancelMsg)>>]),
                        "need_audit_text")
    ELSE Update(result)

\* The body of the node (validate_inputs.py:73-195), given the ids
\* _fetch_set_doc_ids returned.  message ids: `fresh' for the assistant
\* message of a cancel branch, `fresh' for the appended user turn.
validate_inputs_on(state, set_doc_ids, resume_val, fresh) ==
    LET action == IF state.action \in {None, ""} THEN "inquire" ELSE state.action
        resolved0 == state.resolved_doc_ids
        merged == Dedup(resolved0 \o set_doc_ids)
        expanded == set_doc_ids # <<>> /\ merged # resolved0
        resolved1 == IF expanded THEN merged ELSE resolved0
        result0 == IF expanded THEN [resolved_doc_ids |-> resolved1] ELSE <<>>
        result == IF action = "compare" /\ state.enable_web_search
                  THEN DictMerge(result0, [enable_web_search |-> FALSE])
                  ELSE result0
    IN
    IF Len(resolved1) < MinDocs(action)
    THEN IF resume_val = NoResume
         THEN Interrupt("need_more_entities", "text_input", NeedDocsMsg(action),
                        FALSE, <<>>)
         ELSE IF ~IsCancel(resume_val)
         THEN IF IsUUID(resume_val)
              THEN Resumed(DictMerge(result,
                             [resolved_doc_ids |-> Dedup(resolved1 \o <<resume_val>>)]),
                           "need_more_entities")
              ELSE Resumed(result, "need_more_entities")
         ELSE Cancelled(DictMerge(result,
                          [response |-> NeedDocsCancelMsg(action),
                           messages |-> <<AIMessage(fresh, NeedDocsCancelMsg(action))>>]),
                        "need_more_entities")
    ELSE IF action = "audit" /\ IsAuditTextMissing(state)
    THEN IF resume_val = NoResume
         THEN Interrupt("need_audit_text", "text_input", "ask_audit_text", FALSE, <<>>)
         ELSE IF ~IsCancel(resume_val)
         THEN Resumed(DictMerge(result,
                        [messages |-> <<HumanMessage(fresh, resume_val)>>]),
                      "need_audit_text")
         ELSE Cancelled(DictMerge(result,
                          [response |-> AuditTextCancelMsg,
                           messages |-> <<AIMessage(fresh, AuditTextCancelMsg)>>]),
                        "need_audit_text")
    ELSE Update(result)

\* The node (validate_inputs.py:73-195): the set ids are the rows
\* _fetch_set_doc_ids reads when the state names a set (validate_inputs.py:86-88)
validate_inputs(state, resume_val, fresh) ==
    validate_inputs_on(state,
                       IF state.set_id \notin {None, ""}
                       THEN SetDocs(state.set_id) ELSE <<>>,
                       resume_val, fresh)

\* ---------------------------------------------------------------------------
\* Routing and the action nodes (graph/builder.py, graph/nodes/stub_actions.py)
\* ---------------------------------------------------------------------------

\* a router whose fallback is summarize
route_to_action_FallbackSummarize(state) ==
    LET action == IF state.action \in {None, ""} THEN "summarize" ELSE state.action
    IN  IF action \notin ValidActions THEN "summarize" ELSE action

\* route_to_action (builder.py:38-48)
route_to_action(state) ==
    LET action == IF state.action \in {None, ""} THEN "inquire" ELSE state.action
    IN  IF action \notin ValidActions THEN "inquire" ELSE action

\* the text _build_stub_response produces for an action (stub_actions.py:49-63)
StubResponse(action) ==
    CASE action = "summarize" -> "stub_SUMMARIZE"
      [] action = "inquire"   -> "stub_INQUIRE"
      [] action = "compare"   -> "stub_COMPARE"
      [] action = "audit"     -> "stub_AUDIT"

\* _build_stub_response (stub_actions.py:26-84): the four action nodes
stub_action(action, state, fresh) ==
    LET result == [response |-> StubResponse(action),
                   retrieval_confidence |-> "high",
                   messages |-> <<AIMessage(fresh, StubResponse(action))>>]
    IN  Update(IF state.enable_web_search
               THEN DictMerge(result,
                      [web_search_query |-> LastHumanText(state.messages)])
               ELSE result)

\* ---------------------------------------------------------------------------
\* Node: format_response (graph/nodes/format_response.py)
\* ---------------------------------------------------------------------------

\* _fetch_doc_titles: { title: uuid } of the ids that name a row of the
\* documents table; the query filters by id only (format_response.py:31-37)
FetchDocTitles(doc_ids) ==
    LET found == Range(doc_ids) \cap (DocIds \cup {OtherUserDoc})
    IN  [t \in {TitleOf(d) : d \in found} |->
            CHOOSE d \in found : TitleOf(d) = t]

\* The node (format_response.py:45-106)
format_response(state) ==
    LET merged_registry ==
            DictMerge(state.conversation_docs, FetchDocTitles(state.resolved_doc_ids))
        i == LastAIIndex(state.messages)
        last_ai_msg == state.messages[i]
        updated_kwargs ==
            [stamped |-> TRUE,
             action |-> IF state.action \in {None, ""} THEN "inquire" ELSE state.action,
             retrieval_confidence |-> IF state.retrieval_confidence \in {None, ""}
                                      THEN "low" ELSE state.retrieval_confidence]
    IN  IF i = 0
        THEN Update([conversation_docs |-> merged_registry])
        ELSE Update([conversation_docs |-> merged_registry,
                     messages |-> <<[last_ai_msg EXCEPT !.kwargs = updated_kwargs]>>])

\* ---------------------------------------------------------------------------
\* The compiled graph (graph/builder.py) and the checkpoint of the thread
\* ---------------------------------------------------------------------------

\* node n makes a classification call when run on `state'
CallsLLM(n, state) ==
    \/ n = "intent_resolver" /\ state.action \in {None, ""}
    \/ /\ n = "doc_resolver"
       /\ ~(/\ FreeTextEmpty(state.tiptap_json.text)
            /\ (state.tiptap_json.mentions # <<>> \/ state.explicit_doc_ids # <<>>))

\* the node functions registered by build_graph (builder.py:64-71)
RunNode(n, state, resume_val, fresh, llm_ok) ==
    CASE n = "intent_resolver" -> intent_resolver(state, resume_val, fresh, llm_ok)
      [] n = "doc_resolver"    -> doc_resolver(state, resume_val, fresh, llm_ok)
      [] n = "validate_inputs" -> validate_inputs(state, resume_val, fresh)
      [] n = "format_response" -> format_response(state)
      [] OTHER                 -> stub_action(n, state, fresh)

\* targets of the edges leaving node n (builder.py:73-95); the conditional
\* edge of validate_inputs reads the state with the node's own writes applied
EdgeTargets(n, state) ==
    CASE n = "intent_resolver" -> {"doc_resolver"}
      [] n = "doc_resolver"    -> {"validate_inputs"}
      [] n = "validate_inputs" -> {route_to_action(state)}
      [] n = "format_response" -> {}
      [] OTHER                 -> {"format_response"}

\* every node the finished task n triggers: its edges and its Command goto
Triggered(n, state, out) ==
    EdgeTargets(n, ApplyUpdate(state, out.upd)) \cup out.goto

\* order in which the writes of one superstep are applied: the runtime sorts
\* the tasks by node name
NodeOrder ==
    <<"audit", "compare", "doc_resolver", "format_response",
      "inquire", "intent_resolver", "summarize", "validate_inputs">>

\* channel values after the writes of the finished tasks `done' are applied
RECURSIVE ApplyWritesFrom(_, _, _)
ApplyWritesFrom(vals, done, i) ==
    IF i > Len(NodeOrder) THEN vals
    ELSE ApplyWritesFrom(
            IF NodeOrder[i] \in DOMAIN done
            THEN ApplyUpdate(vals, done[NodeOrder[i]].upd) ELSE vals,
            done, i + 1)

ApplyWrites(vals, done) == ApplyWritesFrom(vals, done, 1)

\* nodes of the next superstep
NextNodes(vals, done) ==
    UNION {Triggered(n, vals, done[n]) : n \in DOMAIN done}

\* graph.aget_state(config).values: the checkpoint with the pending writes of
\* its finished tasks applied
GetStateValues(c) == ApplyWrites(c.vals, c.done)

\* the check reading `state.next' in place of the tasks' interrupts
HasPendingInterrupt_NextTasks(c) == c.next # {}

\* any(task.interrupts for task in state.tasks) (chat.py:323-326)
HasPendingInterrupt(c) == DOMAIN c.intr # {}

\* a function extended or overwritten at one point
Put(f, k, v) == [x \in (DOMAIN f) \cup {k} |-> IF x = k THEN v ELSE f[x]]

\* ---------------------------------------------------------------------------
\* SSE events (routers/chat.py, models/schemas.py)
\* ---------------------------------------------------------------------------

StatusEvent(node) ==
    [type |-> "status", node |-> node, text |-> "", payload |-> NoInterrupt]

InterruptResponse(payload) ==
    [type |-> "interrupt", node |-> "", text |-> "", payload |-> payload]

ChatResponse(vals) ==
    [type |-> "response", node |-> "", text |-> vals.response, payload |-> NoInterrupt,
     action |-> vals.action]

\* _sse_error
ErrorEvent(text) ==
    [type |-> "error", node |-> "", text |-> text, payload |-> NoInterrupt]

\* the generator going on after it has yielded the ChatResponse
TerminalTypes_NoReturnAfterResponse == {"interrupt", "error"}

\* the event types after which _stream_graph returns (chat.py:166-230)
TerminalTypes == {"interrupt", "response", "error"}

\* NODE_STATUS_MAP of app.graph.state: the nodes that get a StatusEvent
NODE_STATUS_MAP == Nodes

\* the events _stream_graph yields for the chunk of finished node n, given
\* the state graph.aget_state returns (chat.py:156-200); ChatResponse needs
\* a string for `action' and the model validation raises otherwise
ChunkEvents(n, state_vals) ==
    (IF n \in NODE_STATUS_MAP THEN <<StatusEvent(n)>> ELSE <<>>)
    \o (IF n \in NODE_STATUS_MAP /\ n = "format_response"
        THEN IF state_vals.action = None
             THEN <<ErrorEvent("exception")>>
             ELSE <<ChatResponse(state_vals)>>
        ELSE <<>>)

\* the post-loop safety net of _stream_graph (chat.py:206-226): the stream
\* of the graph ended with no response, so the interrupt of a task of the
\* thread's state is reported, or else the missing response
PostLoopEvent(c) ==
    IF DOMAIN c.intr # {}
    THEN InterruptResponse(c.intr[CHOOSE n \in DOMAIN c.intr : TRUE].payload)
    ELSE ErrorEvent("no_response")

\* the mapping testing the value for falsiness instead of `is None'
ResumeCommandValue_Falsy(resume_val) ==
    IF resume_val \in {None, ""} THEN CANCEL_SENTINEL ELSE resume_val

\* resume value handed to the graph (chat.py:335-336)
ResumeCommandValue(resume_val) ==
    IF resume_val = None THEN CANCEL_SENTINEL ELSE resume_val

\* ---------------------------------------------------------------------------
\* State
\* ---------------------------------------------------------------------------

VARIABLES
    ckpt,     \* latest checkpoint of the thread in the snapshot store
    runs,     \* the HTTP requests on the thread, in order of arrival
    msgCtr,   \* source of fresh message ids (uuid4)
    unit,     \* one call of a service function or helper, from input to result
    store     \* the documents table and its chunks, with the requests on them

vars == <<ckpt, runs, msgCtr>>

\* what the requests on a thread leave alone
others == <<unit, store>>

\* no call is under way
NoUnit == [fn |-> ""]

\* no document is stored
NoStore == [docs |-> <<>>]

RunIds == 1..MaxRuns

\* The POST /chat requests the model draws from: one per path through the
\* resolvers and the validation gate.
Request(text, mentions, action, web, set_id) ==
    [text |-> text, mentions |-> mentions, tagged |-> mentions, action |-> action,
     web |-> web, set_id |-> set_id]

\* a request whose tagged_doc_ids are not the document mentions of its
\* tiptap_json (ChatRequest validates neither against the other)
RequestTagged(text, mentions, tagged, action, web, set_id) ==
    [text |-> text, mentions |-> mentions, tagged |-> tagged, action |-> action,
     web |-> web, set_id |-> set_id]

Requests ==
    {Request("tags",     <<"d1">>,       "summarize", FALSE, None),  \* no gate
     Request("q_medium", <<"d1">>,       "compare",   TRUE,  None),  \* choose-one
     Request("q_low",    <<>>,           "summarize", FALSE, None),  \* ask-for-tag
     Request("q_low",    <<>>,           "inquire",   FALSE, None),  \* ask-for-tag
     Request("tags",     <<"d1">>,       "audit",     FALSE, None),  \* need-audit-text
     Request("q_long",   <<"d1">>,       "audit",     TRUE,  "s1"),  \* no gate, set
     Request("q_fuzzy",  <<>>,           "summarize", FALSE, None),  \* fuzzy match
     Request("tags",     <<"d1">>,       "compare",   TRUE,  None),  \* need-more-entities
     Request("tags",     <<"d1", "d2">>, "compare",   TRUE,  None),  \* no gate
     Request("q_medium", <<>>,           None,        FALSE, None)}  \* classification

\* the values a POST /chat/resume request can carry: null, the empty string,
\* the "all" option, a well-formed id
ResumeValues == {None, "", "all", "d2"}

IdleRun ==
    [st |-> "idle", kind |-> "", value |-> NoResume, resume |-> NoResume, base |-> 0,
     loaded |-> 0, pending |-> <<>>,
     vals |-> EmptyState, todo |-> {}, done |-> <<>>,
     events |-> <<>>, trace |-> <<>>, committed |-> FALSE]

Init ==
    /\ ckpt = [id |-> 0, vals |-> EmptyState, next |-> {}, done |-> <<>>, intr |-> <<>>]
    /\ runs = [r \in RunIds |-> IdleRun]
    /\ msgCtr = 1
    /\ unit = NoUnit
    /\ store = NoStore

\* request r is the next one to arrive
Arrives(r) ==
    /\ runs[r].st = "idle"
    /\ \A q \in RunIds : q < r => runs[q].st # "idle"

NumChats == Cardinality({r \in RunIds : runs[r].kind = "chat"})

\* ---------------------------------------------------------------------------
\* POST /chat (chat.py:237-292)
\* ---------------------------------------------------------------------------

\* initial_state: the transient fields of a turn; conversation_docs is left out
InitialState(text, mentions, tagged, action, web, set_id, fresh) ==
    [messages |-> <<HumanMessage(fresh, text)>>,
     action |-> action,
     enable_web_search |-> web,
     set_id |-> set_id,
     explicit_doc_ids |-> tagged,
     tiptap_json |-> [mentions |-> mentions, text |-> text],
     web_search_query |-> None,
     resolved_doc_ids |-> <<>>,
     inference_source |-> "",
     unresolved_names |-> <<>>,
     inference_confidence |-> "",
     suggested_doc_ids |-> <<>>,
     retrieval_confidence |-> "",
     response |-> ""]

\* The request starts a run on fresh input: the unfinished tasks of the
\* latest checkpoint are discarded, the input is written and the input
\* checkpoint is saved with intent_resolver as the only task.
StartChat(r, req) ==
    LET input == InitialState(req.text, req.mentions, req.tagged, req.action,
                              req.web, req.set_id, msgCtr)
        newvals == ApplyUpdate(ckpt.vals, input)
    IN  /\ ckpt' = [id |-> ckpt.id + 1, vals |-> newvals,
                    next |-> {"intent_resolver"}, done |-> <<>>, intr |-> <<>>]
        /\ runs' = [runs EXCEPT ![r] =
                      [IdleRun EXCEPT !.st = "running", !.kind = "chat",
                                      !.base = ckpt.id + 1, !.vals = newvals,
                                      !.todo = {"intent_resolver"}]]
        /\ msgCtr' = msgCtr + 1

Chat(r) ==
    /\ UNCHANGED others
    /\ Arrives(r)
    /\ NumChats < MaxChats
    /\ \E req \in Requests : StartChat(r, req)

\* ---------------------------------------------------------------------------
\* POST /chat/resume (chat.py:299-341)
\* ---------------------------------------------------------------------------

\* no pending interrupt: HTTP 400 before any stream is created
ResumeReject(r) ==
    /\ UNCHANGED others
    /\ Arrives(r)
    /\ ~HasPendingInterrupt(ckpt)
    /\ runs' = [runs EXCEPT ![r] = [IdleRun EXCEPT !.st = "rejected", !.kind = "resume"]]
    /\ UNCHANGED <<ckpt, msgCtr>>

\* a pending interrupt exists: the handler returns the StreamingResponse
ResumeAdmit(r) ==
    /\ UNCHANGED others
    /\ Arrives(r)
    /\ HasPendingInterrupt(ckpt)
    /\ \E v \in ResumeValues :
          runs' = [runs EXCEPT ![r] =
                     [IdleRun EXCEPT !.st = "admitted", !.kind = "resume",
                                     !.value = v,
                                     !.resume = ResumeCommandValue(v)]]
    /\ UNCHANGED <<ckpt, msgCtr>>

\* _stream_graph starts: graph.astream(Command(resume=...)) loads the latest
\* checkpoint; the tasks of its pending superstep that have no saved writes
\* run again, the interrupted one among them
ResumeStart(r) ==
    /\ UNCHANGED others
    /\ runs[r].st = "admitted"
    /\ runs' = [runs EXCEPT ![r] =
                  [@ EXCEPT !.st = "running", !.base = ckpt.id, !.vals = ckpt.vals,
                            !.loaded = ckpt.id, !.pending = [n \in DOMAIN ckpt.intr |-> ckpt.intr[n].gate],
                            !.done = ckpt.done,
                            !.todo = ckpt.next \ DOMAIN ckpt.done]]
    /\ UNCHANGED <<ckpt, msgCtr>>

\* ---------------------------------------------------------------------------
\* _stream_graph: one chunk of graph.astream (chat.py:116-230)
\* ---------------------------------------------------------------------------

\* what the model records of a finished task: the node, how it ended, the
\* gate whose resume or cancel branch it took, the checkpoint it ran on and
\* the response text it wrote
TraceEntry(n, out, at) ==
    [node |-> n, kind |-> out.kind, gate |-> out.gate, at |-> at,
     response |-> IF "response" \in DOMAIN out.upd THEN out.upd.response ELSE ""]

UsesFresh(out, fresh) ==
    /\ "messages" \in DOMAIN out.upd
    /\ \E i \in 1..Len(out.upd.messages) : out.upd.messages[i].id = fresh

\* the checkpoint a run saves when its superstep is complete
NextCheckpoint(run, id) ==
    [id |-> id, vals |-> ApplyWrites(run.vals, run.done),
     next |-> NextNodes(run.vals, run.done), done |-> <<>>, intr |-> <<>>]

\* the run after the writes of its finished superstep are applied: the next
\* superstep is prepared, or the stream ends with no node left and the
\* post-loop safety net of _stream_graph runs on the saved checkpoint
Advance(run, id) ==
    LET newvals == ApplyWrites(run.vals, run.done)
        nxt == NextNodes(run.vals, run.done)
    IN  [run EXCEPT !.st = IF nxt = {} THEN "done" ELSE "running",
                    !.base = id, !.vals = newvals,
                    !.todo = nxt, !.done = <<>>,
                    !.resume = NoResume,
                    !.events = IF nxt = {}
                               THEN Append(@, PostLoopEvent(NextCheckpoint(run, id)))
                               ELSE @]

\* Task n of run r finishes.  Its writes (or its interrupt) are saved with the
\* checkpoint the run is based on, its chunk reaches _stream_graph, and the
\* generator returns on a terminal chunk.  Otherwise, when n was the last
\* task of the superstep, the checkpoint advances.
TaskFinish(r, n, llm_ok) ==
    LET run == runs[r]
        out == RunNode(n, run.vals, run.resume, msgCtr, llm_ok)
        attached == ckpt.id = run.base
        ckptW == IF attached THEN [ckpt EXCEPT !.done = Put(@, n, out)] ELSE ckpt
        ckptI == IF attached
                 THEN [ckpt EXCEPT !.intr = Put(@, n, [payload |-> out.intr,
                                                       gate |-> out.gate])]
                 ELSE ckpt
        evs == ChunkEvents(n, GetStateValues(ckptW))
        terminal == evs # <<>> /\ evs[Len(evs)].type \in TerminalTypes
        finished == [run EXCEPT !.st = IF terminal THEN "done" ELSE "running",
                                !.todo = @ \ {n},
                                !.done = Put(@, n, out),
                                !.resume = IF out.gate # "" THEN NoResume ELSE @,
                                !.events = @ \o evs,
                                !.trace = Append(@, TraceEntry(n, out, run.base))]
    IN
    /\ UNCHANGED others
    /\ run.st = "running"
    /\ n \in run.todo
    /\ llm_ok \/ CallsLLM(n, run.vals)
    /\ msgCtr' = IF UsesFresh(out, msgCtr) THEN msgCtr + 1 ELSE msgCtr
    /\ CASE out.kind = "raise" ->
              /\ runs' = [runs EXCEPT ![r] =
                            [@ EXCEPT !.st = "done",
                                      !.events = Append(@, ErrorEvent("exception")),
                                      !.trace = Append(@, TraceEntry(n, out, run.base))]]
              /\ ckpt' = ckpt
         [] out.kind = "interrupt" ->
              /\ runs' = [runs EXCEPT ![r] =
                            [@ EXCEPT !.st = "done",
                                      !.events = Append(@, InterruptResponse(out.intr)),
                                      !.trace = Append(@, TraceEntry(n, out, run.base))]]
              /\ ckpt' = ckptI
         [] OTHER ->
              IF ~terminal /\ finished.todo = {}
              THEN /\ runs' = [runs EXCEPT ![r] = Advance(finished, ckpt.id + 1)]
                   /\ ckpt' = NextCheckpoint(finished, ckpt.id + 1)
              ELSE /\ runs' = [runs EXCEPT ![r] = finished]
                   /\ ckpt' = ckptW

\* A resumed run finds no task to run in the checkpoint it loaded: the
\* saved writes of the superstep, if any, are applied and the run goes on.
EmptyStep(r) ==
    LET run == runs[r]
    IN
    /\ UNCHANGED others
    /\ run.st = "running"
    /\ run.todo = {}
    /\ IF DOMAIN run.done = {}
       THEN /\ runs' = [runs EXCEPT ![r] =
                          [@ EXCEPT !.st = "done",
                                    !.events = Append(@, PostLoopEvent(ckpt))]]
            /\ ckpt' = ckpt
       ELSE /\ runs' = [runs EXCEPT ![r] = Advance(run, ckpt.id + 1)]
            /\ ckpt' = NextCheckpoint(run, ckpt.id + 1)
    /\ UNCHANGED msgCtr

\* The stream has ended on the Final Response with every task of the last
\* superstep finished: the checkpoint of that superstep may still be saved.
LateCommit(r) ==
    LET run == runs[r]
    IN
    /\ UNCHANGED others
    /\ run.st = "done"
    /\ ~run.committed
    /\ run.todo = {}
    /\ DOMAIN run.done # {}
    /\ run.events # <<>>
    /\ run.events[Len(run.events)].type = "response"
    /\ ckpt' = NextCheckpoint(run, ckpt.id + 1)
    /\ runs' = [runs EXCEPT ![r].committed = TRUE]
    /\ UNCHANGED msgCtr

Next ==
    \E r \in RunIds :
        \/ Chat(r)
        \/ ResumeReject(r)
        \/ ResumeAdmit(r)
        \/ ResumeStart(r)
        \/ \E n \in Nodes, llm_ok \in BOOLEAN : TaskFinish(r, n, llm_ok)
        \/ EmptyStep(r)
        \/ LateCommit(r)

Spec == Init /\ [][Next]_<<vars, others>>

\* ---------------------------------------------------------------------------
\* One conversation, one request at a time: the thread already has a document
\* registry from earlier turns, and the client waits for the end of a stream
\* before it sends the next request
\* ---------------------------------------------------------------------------

\* conversation_docs left by earlier turns: none; two documents; one title
\* that now belongs to another document (T1 is the title of d1)
Registries ==
    { <<>>,
      [t \in {"T1", "T2"} |-> IF t = "T1" THEN "d1" ELSE "d2"],
      [t \in {"T1"} |-> "d3"] }

\* the transcript those turns left behind
PriorMessages(registry) ==
    IF registry = <<>> THEN <<>>
    ELSE <<HumanMessage(1, "tags"),
           [AIMessage(2, StubResponse("summarize")) EXCEPT
               !.kwargs = [stamped |-> TRUE, action |-> "summarize",
                           retrieval_confidence |-> "high"]]>>

TurnRequests ==
    { Request("tags",     <<"d1">>,        "summarize", FALSE, None),
      Request("tags",     <<"d1">>,        "compare",   TRUE,  None),
      Request("tags",     <<"d1", "d2">>,  "compare",   TRUE,  None),
      Request("tags",     <<"d1">>,        "audit",     FALSE, None),
      Request("tags",     <<"d3">>,        "inquire",   FALSE, "s1"),
      RequestTagged("tags", <<>>, <<"d1", "d1">>, "compare", FALSE, None),
      Request("q_medium", <<>>,            "summarize", FALSE, None),
      Request("q_medium", <<"d3">>,        "compare",   TRUE,  None),
      Request("q_medium", <<"d2">>,        "summarize", FALSE, None),
      Request("q_medium", <<"d2">>,        "audit",     FALSE, None),
      Request("q_medium", <<>>,            "audit",     FALSE, None),
      Request("q_low",    <<>>,            "summarize", FALSE, None),
      Request("q_low",    <<"d1">>,        "summarize", FALSE, None),
      Request("q_fuzzy",  <<>>,            "inquire",   TRUE,  None),
      Request("q_mixed",  <<"d1">>,        "inquire",   FALSE, None),
      Request("q_mixed",  <<>>,            "compare",   FALSE, None),
      Request("q_long",   <<"d1">>,        "audit",     TRUE,  "s1"),
      Request("tags",     <<"d1">>,        "translate", FALSE, None),
      Request("q_medium", <<"d1">>,        None,        FALSE, None),
      Request("q_low",    <<>>,            None,        FALSE, None),
      Request("q_fuzzy",  <<"d1">>,        None,        TRUE,  None),
      Request("tags",     <<OtherUserDoc>>, "inquire",  FALSE, None) }

InitTurn ==
    /\ \E registry \in Registries :
          ckpt = [id |-> 0,
                  vals |-> [EmptyState EXCEPT !.conversation_docs = registry,
                                              !.messages = PriorMessages(registry)],
                  next |-> {}, done |-> <<>>, intr |-> <<>>]
    /\ runs = [r \in RunIds |-> IdleRun]
    /\ msgCtr = 3
    /\ unit = NoUnit
    /\ store = NoStore

\* no stream is open
Quiet == \A q \in RunIds : runs[q].st \notin {"admitted", "running"}

TurnChat(r) ==
    /\ UNCHANGED others
    /\ Quiet
    /\ Arrives(r)
    /\ NumChats < MaxChats
    /\ \E req \in TurnRequests : StartChat(r, req)

TurnResume(r) ==
    /\ UNCHANGED others
    /\ Quiet
    /\ ResumeAdmit(r)

NextTurn ==
    \E r \in RunIds :
        \/ TurnChat(r)
        \/ TurnResume(r)
        \/ ResumeStart(r)
        \/ \E n \in Nodes, llm_ok \in BOOLEAN : TaskFinish(r, n, llm_ok)
        \/ LateCommit(r)

SpecTurn == InitTurn /\ [][NextTurn]_<<vars, others>>

\* ---------------------------------------------------------------------------
\* Properties
\* ---------------------------------------------------------------------------

\* the node executions of run r that took a gate's resume or cancel branch
Consumed(r) ==
    {i \in 1..Len(runs[r].trace) :
        runs[r].trace[i].gate # "" /\ runs[r].trace[i].kind \in {"update", "cancel"}}

\* the index of the first cancel branch taken by run r, 0 when there is none
FirstCancel(r) ==
    LET cs == {i \in 1..Len(runs[r].trace) : runs[r].trace[i].kind = "cancel"}
    IN  IF cs = {} THEN 0 ELSE CHOOSE i \in cs : \A j \in cs : i <= j

\* C1: a resume request that arrives while the thread has no pending
\* interrupt is rejected, and the rejecting step leaves the checkpoint and
\* the message counter as they were and starts no node: the state read after
\* the rejection is the state read before it.
C1_RejectedResumeMutatesNothing ==
    [][\A r \in RunIds :
          /\ (runs[r].st = "idle" /\ runs'[r].kind = "resume"
                /\ DOMAIN ckpt.intr = {})
             => /\ runs'[r].st = "rejected"
                /\ ckpt' = ckpt
                /\ msgCtr' = msgCtr
          /\ runs[r].st = "rejected"
             => /\ runs'[r] = runs[r]
                /\ runs[r].trace = <<>>
                /\ runs[r].events = <<>>]_vars

\* a resume was rejected after a turn had run to its Final Response
C1_Witness ==
    \E r \in RunIds :
        /\ runs[r].st = "rejected"
        /\ \E q \in RunIds : q < r /\ runs[q].kind = "chat" /\ runs[q].st = "done"

\* the requests whose stream is open on the thread
ActiveRuns == {r \in RunIds : runs[r].st = "running"}

\* C2: at most one run is in flight on the thread at any time.
C2_AtMostOneActiveRun == Cardinality(ActiveRuns) <= 1

\* C3: a pending interrupt is consumed by at most one resume request: no two
\* requests take a gate's resume or cancel branch on the same checkpoint.
C3_InterruptConsumedOnce ==
    \A r1, r2 \in RunIds :
        r1 # r2 =>
            ~ \E i \in Consumed(r1), j \in Consumed(r2) :
                  /\ runs[r1].trace[i].at = runs[r2].trace[j].at
                  /\ runs[r1].trace[i].node = runs[r2].trace[j].node

\* the positions of the terminal events in the stream of request r
TerminalAt(r) ==
    {i \in 1..Len(runs[r].events) :
        runs[r].events[i].type \in {"interrupt", "response", "error"}}

C5_CancelEndsWithCannedResponse ==
    \A r \in RunIds :
        (runs[r].st = "done" /\ FirstCancel(r) # 0)
            => LET last == runs[r].events[Len(runs[r].events)]
               IN  /\ last.type = "response"
                   /\ last.text = runs[r].trace[FirstCancel(r)].response

\* C6: after a gate has taken its cancel branch, format_response is the only
\* node the run executes.
C6_OnlyFormatterAfterCancel ==
    \A r \in RunIds :
        FirstCancel(r) # 0
            => \A i \in 1..Len(runs[r].trace) :
                   i > FirstCancel(r) => runs[r].trace[i].node = "format_response"

\* C7: whichever gate consumes the value of a resume request, a null value
\* makes it take the cancel branch and an empty-string value never does.
C7_NullCancelsEmptyStringDoesNot ==
    \A r \in RunIds :
        \A i \in Consumed(r) :
            /\ runs[r].value = None => runs[r].trace[i].kind = "cancel"
            /\ runs[r].value = "" => runs[r].trace[i].kind = "update"

\* one gate has consumed an empty string and gone on, and a gate has
\* consumed a null and cancelled
C7_Witness ==
    \E r1, r2 \in RunIds :
        /\ runs[r1].value = ""
        /\ \E i \in Consumed(r1) : runs[r1].trace[i].kind = "update"
        /\ runs[r2].value = None
        /\ \E i \in Consumed(r2) : runs[r2].trace[i].kind = "cancel"

\* C8: a resumed run that loads a checkpoint with a pending interrupt
\* executes, on that checkpoint, the node that issued the interrupt and no
\* other node: nothing that ran before the suspension runs again, and the
\* node is replayed on the values the checkpoint holds.
C8_ResumeReentersSuspendedNode ==
    \A r \in RunIds :
        (runs[r].kind = "resume" /\ DOMAIN runs[r].pending # {})
            => \A i \in 1..Len(runs[r].trace) :
                   runs[r].trace[i].at = runs[r].loaded
                       => runs[r].trace[i].node \in DOMAIN runs[r].pending

AssistantMessages ==
    LET msgs == GetStateValues(ckpt).messages
    IN  {i \in 1..Len(msgs) : msgs[i].role = "ai"}

\* the user inputs whose run has reached its Final Response
AnsweredInputs ==
    {r \in RunIds : /\ runs[r].kind = "chat"
                    /\ \E q \in RunIds :
                          /\ q >= r
                          /\ runs[q].st = "done"
                          /\ runs[q].events[Len(runs[q].events)].type = "response"}

\* C10: once the run of a user input has reached its Final Response, the
\* thread history holds exactly one assistant message for that input.
C10_OneAssistantMessagePerInput ==
    AnsweredInputs # {} => Cardinality(AssistantMessages) = Cardinality(AnsweredInputs)

\* the nodes that read the resolved id list
ResolvedIdReaders ==
    {"validate_inputs", "format_response"} \cup ValidActions

\* this turn's explicit ids, each once, in the order the user gave them
ExplicitOnce(state) ==
    Dedup(IF state.tiptap_json.mentions # <<>>
          THEN state.tiptap_json.mentions ELSE state.explicit_doc_ids)

NoIdTwice(ids) ==
    \A i, j \in 1..Len(ids) : ids[i] = ids[j] => i = j

IsPrefix(a, b) ==
    Len(a) <= Len(b) /\ \A i \in 1..Len(a) : a[i] = b[i]

\* C11: in every state handed to validate_inputs, an action node or
\* format_response, resolved_doc_ids holds no id twice and starts with the
\* explicit ids in first-seen order (inferred, fuzzy-matched, set and resume
\* ids follow them).
C11_ResolvedIdsDeduplicatedInOrder ==
    \A r \in RunIds :
        (runs[r].st = "running" /\ runs[r].todo \cap ResolvedIdReaders # {}) =>
            /\ NoIdTwice(runs[r].vals.resolved_doc_ids)
            /\ IsPrefix(ExplicitOnce(runs[r].vals), runs[r].vals.resolved_doc_ids)

\* ids the classification of this turn's text returns that are neither in the
\* registry nor among this turn's explicit ids
RejectedIds(state) ==
    Range(LLMDocResolution(state.tiptap_json.text).resolved_uuids)
        \ (DictValues(state.conversation_docs) \cup Range(ExplicitOnce(state)))

\* ids that reach the turn from somewhere else than the classification: the
\* store's fuzzy title match, the members of the tagged set, a resume value
SuppliedIds(state) ==
    Range(FuzzyMatched(LLMDocResolution(state.tiptap_json.text).unresolved_names))
        \cup (IF state.set_id \in {None, ""} THEN {} ELSE Range(SetDocs(state.set_id)))
        \cup {runs[q].value : q \in RunIds}

\* the option ids of the interrupts that run r has sent to the client
OfferedOptions(r) ==
    UNION {Range(runs[r].events[i].payload.options) : i \in 1..Len(runs[r].events)}

\* C12: an id the classifier returned for a turn that is not in the registry
\* or among the turn's explicit ids is never in resolved_doc_ids, in
\* suggested_doc_ids or in the options of an interrupt of that turn (unless
\* the store or the user supplied that id).
C12_UnknownClassifierIdNeverAccepted ==
    /\ \A x \in RejectedIds(ckpt.vals) \ SuppliedIds(ckpt.vals) :
          x \notin Range(ckpt.vals.resolved_doc_ids)
                     \cup Range(ckpt.vals.suggested_doc_ids)
    /\ \A r \in RunIds :
          \A x \in RejectedIds(runs[r].vals) \ SuppliedIds(runs[r].vals) :
              x \notin Range(runs[r].vals.resolved_doc_ids)
                         \cup Range(runs[r].vals.suggested_doc_ids)
                         \cup OfferedOptions(r)

\* the classifier returned known ids together with an unknown one, the known
\* ones were offered at a choose-one interrupt and the turn went on to its end
C12_Witness ==
    /\ HallucinatedId \in RejectedIds(ckpt.vals) \ SuppliedIds(ckpt.vals)
    /\ ckpt.vals.resolved_doc_ids # <<>>
    /\ ckpt.vals.conversation_docs # <<>>
    /\ \E r \in RunIds : \E i \in 1..Len(runs[r].events) :
          Len(runs[r].events[i].payload.options) > 2
    /\ \E r \in RunIds : runs[r].st = "done" /\ runs[r].committed

\* run r saves the checkpoint of a superstep in which format_response ran
FormatterStep(r) ==
    /\ runs'[r] # runs[r]
    /\ ckpt'.id = ckpt.id + 1
    /\ "format_response" \in runs[r].todo \cup DOMAIN runs[r].done

\* C13: whatever run changes the checkpoint, conversation_docs after a
\* format_response step is the previous registry overwritten by the
\* title -> id pairs of the ids that step resolved, and any other step (a new
\* first call included) leaves the registry as it was; no title is removed.
C13_RegistryMergedNeverReset ==
    [][\A r \in RunIds :
          runs'[r] # runs[r] =>
              /\ DOMAIN ckpt.vals.conversation_docs
                    \subseteq DOMAIN ckpt'.vals.conversation_docs
              /\ ckpt'.vals.conversation_docs =
                    IF FormatterStep(r)
                    THEN DictMerge(ckpt.vals.conversation_docs,
                                   FetchDocTitles(runs[r].vals.resolved_doc_ids))
                    ELSE ckpt.vals.conversation_docs]_vars

\* C14: an action node starts only when resolved_doc_ids holds at least the
\* minimum number of ids of its action, whatever value resumed the
\* need-more-entities gate.
C14_ActionStartsWithMinimumDocs ==
    \A r \in RunIds : \A a \in ValidActions :
        (runs[r].st = "running" /\ a \in runs[r].todo) =>
            Len(runs[r].vals.resolved_doc_ids) >= MinDocs(a)

\* the intent classifier has completed in the turn of this checkpoint with
\* the compare action
CompareClassified ==
    /\ ckpt.id > 0
    /\ "intent_resolver" \notin ckpt.next
    /\ ckpt.vals.action = "compare"

\* C15: once intent_resolver has completed with action compare,
\* enable_web_search is false in every state of the pipeline, the final state
\* of a cancelled run included.
C15_CompareNeverSearchesWeb ==
    CompareClassified => ~ckpt.vals.enable_web_search

\* run r is about to enter validate_inputs for the first time in a compare
\* turn with exactly one resolved id, no set to expand and the web flag set
CompareOneDocWithWeb(r) ==
    /\ runs[r].st = "running"
    /\ "validate_inputs" \in runs[r].todo
    /\ runs[r].resume = NoResume
    /\ runs[r].vals.action = "compare"
    /\ Len(runs[r].vals.resolved_doc_ids) = 1
    /\ runs[r].vals.set_id \in {None, ""}
    /\ runs[r].vals.enable_web_search

\* run r has ended after cancelling the need-more-entities gate of a compare
CompareCancelledAtCountGate(r) ==
    /\ runs[r].st = "done"
    /\ runs[r].vals.action = "compare"
    /\ \E i \in 1..Len(runs[r].trace) :
          /\ runs[r].trace[i].node = "validate_inputs"
          /\ runs[r].trace[i].kind = "cancel"
          /\ runs[r].trace[i].gate = "need_more_entities"

\* C16: a compare turn that enters validate_inputs with one resolved id and
\* the web flag set is suspended with a free-text need-more-entities
\* interrupt; when that interrupt is cancelled the run ends with
\* enable_web_search false and a final response saying that compare requires
\* at least 2 documents.
C16_CompareOneDocSuspendsAndCancelsClean ==
    \A r \in RunIds :
        /\ CompareOneDocWithWeb(r) =>
              LET out == validate_inputs(runs[r].vals, NoResume, msgCtr)
              IN  /\ out.kind = "interrupt"
                  /\ out.gate = "need_more_entities"
                  /\ out.intr.interrupt_type = "text_input"
        /\ CompareCancelledAtCountGate(r) =>
              LET last == runs[r].events[Len(runs[r].events)]
              IN  /\ last.type = "response"
                  /\ last.text = NeedDocsCancelMsg("compare")
                  /\ ~GetStateValues(ckpt).enable_web_search

\* run r is about to enter validate_inputs in an audit turn that has its
\* documents but whose latest user message holds less than 50 characters of
\* text besides the @tags
AuditWithoutText(r) ==
    /\ runs[r].st = "running"
    /\ "validate_inputs" \in runs[r].todo
    /\ runs[r].vals.action = "audit"
    /\ Len(runs[r].vals.resolved_doc_ids) >= MinDocs("audit")
    /\ IsAuditTextMissing(runs[r].vals)

\* the contents of the human messages of a history, in order
HumanContents(msgs) ==
    LET h == SelectSeq(msgs, LAMBDA m : m.role = "human")
    IN  [i \in 1..Len(h) |-> h[i].content]

\* the step in which run r saves the checkpoint of the superstep in which
\* validate_inputs left by the resume branch of the audit-text gate
AuditTextResumed(r) ==
    /\ runs'[r] # runs[r]
    /\ ckpt'.id = ckpt.id + 1
    /\ \/ /\ "validate_inputs" \in DOMAIN runs[r].done
          /\ runs[r].done["validate_inputs"].gate = "need_audit_text"
          /\ runs[r].done["validate_inputs"].kind = "update"
       \/ /\ "validate_inputs" \in runs[r].todo
          /\ Len(runs'[r].trace) = Len(runs[r].trace) + 1
          /\ LET e == runs'[r].trace[Len(runs'[r].trace)]
             IN  e.node = "validate_inputs" /\ e.gate = "need_audit_text"
                    /\ e.kind = "update"

\* C17: an audit turn with enough documents and less than 50 characters of
\* text is suspended at need-audit-text; a resume with text t that is not a
\* cancel appends exactly one human message with content t to the history,
\* and the audit node runs next with t as the latest user message.
C17_AuditTextAskedAndAppended ==
    [][\A r \in RunIds :
          /\ (AuditWithoutText(r) /\ runs[r].resume = NoResume) =>
                LET out == validate_inputs(runs[r].vals, NoResume, msgCtr)
                IN  out.kind = "interrupt" /\ out.gate = "need_audit_text"
          /\ AuditTextResumed(r) =>
                /\ ~IsCancel(runs[r].value)
                /\ HumanContents(ckpt'.vals.messages) =
                      Append(HumanContents(runs[r].vals.messages), runs[r].value)
                /\ LastHumanText(ckpt'.vals.messages) = runs[r].value
                /\ runs'[r].st = "running"
                /\ "audit" \in runs'[r].todo]_vars

\* the step in which doc_resolver of run r leaves its choose-one gate in the
\* way `kind': "interrupt" (first pass), "update" (resumed), "cancel"
ChooseOneStep(r, kind) ==
    /\ Len(runs'[r].trace) = Len(runs[r].trace) + 1
    /\ LET e == runs'[r].trace[Len(runs'[r].trace)]
       IN  e.node = "doc_resolver" /\ e.gate = "choose_one" /\ e.kind = kind

\* run r is about to enter doc_resolver on a turn that resolves with medium
\* confidence and at least one suggested id
MediumWithSuggestions(r) ==
    /\ runs[r].st = "running"
    /\ "doc_resolver" \in runs[r].todo
    /\ CallsLLM("doc_resolver", runs[r].vals)
    /\ DocResolve(runs[r].vals).confidence = "medium"
    /\ DocResolve(runs[r].vals).suggested_doc_ids # <<>>

\* C18: with medium confidence and suggested ids S, doc_resolver interrupts
\* with one option per id of S, in the order of S, followed by the option
\* "all"; resumed with "all" it returns a resolved list that contains every
\* id of S, with confidence high.
C18_ChooseOneOffersAllSuggestions ==
    [][\A r \in RunIds :
          LET S == DocResolve(runs[r].vals).suggested_doc_ids
          IN  /\ (MediumWithSuggestions(r) /\ runs[r].resume = NoResume) =>
                    doc_resolver(runs[r].vals, NoResume, msgCtr, TRUE)
                        = Interrupt("choose_one", "doc_choice", "which_document",
                                    TRUE, S \o <<"all">>)
              /\ ChooseOneStep(r, "interrupt") =>
                    LET last == runs'[r].events[Len(runs'[r].events)]
                    IN  /\ MediumWithSuggestions(r)
                        /\ last.type = "interrupt"
                        /\ last.payload.options = S \o <<"all">>
              /\ (ChooseOneStep(r, "update") /\ runs[r].value = "all") =>
                    /\ Range(S) \subseteq Range(runs'[r].vals.resolved_doc_ids)
                    /\ runs'[r].vals.inference_confidence = "high"
                    /\ ckpt'.vals.resolved_doc_ids = runs'[r].vals.resolved_doc_ids
                    /\ ckpt'.vals.inference_confidence = "high"]_vars

\* two ids were offered, followed by "all"; the user chose "all" and both
\* ids are resolved
C18_Witness ==
    \E r, q \in RunIds :
        /\ runs[r].events # <<>>
        /\ runs[r].events[Len(runs[r].events)].type = "interrupt"
        /\ runs[r].events[Len(runs[r].events)].payload.options = <<"d1", "d2", "all">>
        /\ runs[q].value = "all"
        /\ \E i \in 1..Len(runs[q].trace) :
              runs[q].trace[i].gate = "choose_one" /\ runs[q].trace[i].kind = "update"
        /\ {"d1", "d2"} \subseteq Range(runs[q].vals.resolved_doc_ids)
        /\ runs[q].vals.inference_confidence = "high"

\* C19: resumed at the choose-one gate with one offered id x, doc_resolver
\* returns this turn's explicit ids followed by x, with confidence high: a
\* suggested id other than x that the user did not tag is not resolved.
C19_ChooseOneMergesOnlyTheChoice ==
    [][\A r \in RunIds :
          LET S == DocResolve(runs[r].vals).suggested_doc_ids
              explicit == ExplicitOnce(runs[r].vals)
              x == runs[r].value
          IN  (ChooseOneStep(r, "update") /\ x \in Range(S)) =>
                  /\ runs'[r].vals.resolved_doc_ids = Dedup(explicit \o <<x>>)
                  /\ \A y \in Range(S) \ ({x} \cup Range(explicit)) :
                        y \notin Range(runs'[r].vals.resolved_doc_ids)
                  /\ runs'[r].vals.inference_confidence = "high"]_vars

\* run r is about to enter doc_resolver on a pure-mention turn: at least one
\* explicit id and no free text
PureMention(r) ==
    /\ runs[r].st = "running"
    /\ "doc_resolver" \in runs[r].todo
    /\ FreeTextEmpty(runs[r].vals.tiptap_json.text)
    /\ ( runs[r].vals.tiptap_json.mentions # <<>>
         \/ runs[r].vals.explicit_doc_ids # <<>> )

\* the explicit ids as doc_resolver reads them (doc_resolver.py:262-266)
ExplicitIds(state) ==
    IF Dedup(state.tiptap_json.mentions) # <<>>
    THEN Dedup(state.tiptap_json.mentions) ELSE state.explicit_doc_ids

\* C20: on a pure-mention turn doc_resolver makes no classification call and
\* no store call, does not interrupt, and returns the explicit ids with
\* confidence high and source explicit; the outcome is the same whether or
\* not the classification or the store would have answered, whatever resume
\* value is pending, and each time the node runs.
C20_PureMentionShortcut ==
    [][\A r \in RunIds :
          PureMention(r) =>
              /\ ~CallsLLM("doc_resolver", runs[r].vals)
              /\ \A llm_ok \in BOOLEAN, resume_val \in ResumeValues \cup {NoResume} :
                    doc_resolver(runs[r].vals, resume_val, msgCtr, llm_ok) =
                        Update([resolved_doc_ids |-> ExplicitIds(runs[r].vals),
                                inference_source |-> "explicit",
                                inference_confidence |-> "high",
                                unresolved_names |-> <<>>,
                                suggested_doc_ids |-> <<>>])
              /\ ( /\ Len(runs'[r].trace) = Len(runs[r].trace) + 1
                   /\ runs'[r].trace[Len(runs'[r].trace)].node = "doc_resolver" ) =>
                    /\ runs'[r].trace[Len(runs'[r].trace)].kind = "update"
                    /\ runs'[r].trace[Len(runs'[r].trace)].gate = ""
                    /\ runs'[r].vals.resolved_doc_ids = ExplicitIds(runs[r].vals)
                    /\ runs'[r].vals.inference_confidence = "high"
                    /\ runs'[r].vals.inference_source = "explicit"
                    /\ runs'[r].todo = {"validate_inputs"}]_vars

\* a pure-mention turn tagging d1 and d2 went through doc_resolver
C20_Witness ==
    \E r \in RunIds :
        /\ FreeTextEmpty(runs[r].vals.tiptap_json.text)
        /\ runs[r].vals.tiptap_json.mentions = <<"d1", "d2">>
        /\ Len(runs[r].trace) >= 2
        /\ runs[r].trace[2].node = "doc_resolver"
        /\ runs[r].trace[2].kind = "update"
        /\ runs[r].vals.resolved_doc_ids = <<"d1", "d2">>
        /\ runs[r].vals.inference_source = "explicit"

\* the gates that ask for free text
FreeTextGates == {"ask_for_tag", "need_more_entities", "need_audit_text"}

\* a well-formed interrupt payload: a prompt, and either no options or a
\* non-empty list of options
WellFormedPayload(p) ==
    /\ p.message # ""
    /\ p.interrupt_type # ""
    /\ \/ ~p.has_options /\ p.options = <<>>
       \/ p.has_options /\ p.options # <<>>

\* C21: every interrupt a gate issues has a non-empty message; its options are
\* null for the free-text gates (ask_for_tag, need_more_entities,
\* need_audit_text) and a non-empty list otherwise, and the options of a
\* choose-one interrupt contain "all".
C21_SuspensionsWellFormed ==
    /\ \A n \in DOMAIN ckpt.intr :
          LET p == ckpt.intr[n].payload
              gate == ckpt.intr[n].gate
          IN  /\ WellFormedPayload(p)
              /\ gate \in FreeTextGates => ~p.has_options
              /\ gate \notin FreeTextGates => p.has_options
              /\ gate = "choose_one" => "all" \in Range(p.options)
    /\ \A r \in RunIds : \A i \in 1..Len(runs[r].events) :
          runs[r].events[i].type = "interrupt" =>
              WellFormedPayload(runs[r].events[i].payload)
    /\ \A text \in Texts, pass \in {1, 2} :
          LET out == IntentGates(LLMIntent(text, pass), FALSE, NoResume, msgCtr)
          IN  out.kind = "interrupt" =>
                  WellFormedPayload(out.intr) /\ out.intr.has_options

\* a choose-one interrupt and, later in the turn, a free-text interrupt have
\* been sent to the client
C21_Witness ==
    /\ \E r \in RunIds : \E i \in 1..Len(runs[r].events) :
          /\ runs[r].events[i].type = "interrupt"
          /\ runs[r].events[i].payload.has_options
    /\ \E n \in DOMAIN ckpt.intr : ckpt.intr[n].gate \in FreeTextGates

\* the step in which run r saves the checkpoint of the superstep in which
\* validate_inputs returned: the conditional edge is evaluated on the new
\* state and its target is a task of the next superstep
ValidationRouted(r) ==
    /\ runs'[r] # runs[r]
    /\ ckpt'.id = ckpt.id + 1
    /\ "validate_inputs" \in runs[r].todo \cup DOMAIN runs[r].done

\* channels that neither validate_inputs nor a node that can run beside it
\* writes
RoutingLeaves ==
    {"action", "set_id", "explicit_doc_ids", "tiptap_json", "inference_source",
     "inference_confidence", "suggested_doc_ids", "unresolved_names",
     "retrieval_confidence", "web_search_query"}

\* C22: the node that runs after validate_inputs depends on state.action
\* only: it is the action when that is summarize, inquire, compare or audit
\* and inquire for any other or unset value; routing fails for no value and
\* writes nothing to the state.
C22_RoutingIsPureFunctionOfAction ==
    [][\A r \in RunIds :
          ValidationRouted(r) =>
              LET action == ckpt'.vals.action
                  target == IF action \in {"summarize", "inquire", "compare", "audit"}
                            THEN action ELSE "inquire"
              IN  /\ target \in ckpt'.next
                  /\ ckpt'.next \subseteq {target, "format_response"}
                  /\ \A k \in RoutingLeaves : ckpt'.vals[k] = runs[r].vals[k]]_vars

\* a turn whose action is none of the four was routed to inquire
C22_Witness ==
    \E r \in RunIds :
        /\ runs[r].vals.action = "translate"
        /\ \E i \in 1..Len(runs[r].trace) : runs[r].trace[i].node = "inquire"

\* a call of run r to the classification service failed after its retry
CallFailed(r) ==
    \E i \in 1..Len(runs[r].trace) :
        /\ runs[r].trace[i].kind = "raise"
        /\ runs[r].trace[i].node = "doc_resolver"

\* C23: when a classification call fails inside a node, the turn goes on with
\* a degraded result: the stream of the run ends with an interrupt or the
\* final response, and no event carries the text of the exception.
C23_FailedCallDegradesNotAborts ==
    \A r \in RunIds :
        (runs[r].st = "done" /\ CallFailed(r)) =>
            /\ runs[r].events[Len(runs[r].events)].type \in {"interrupt", "response"}
            /\ \A i \in 1..Len(runs[r].events) :
                  ~(runs[r].events[i].type = "error"
                      /\ runs[r].events[i].text = "exception")

\* the step in which run r resumes the ask-for-tag gate or the
\* need-more-entities gate with a value that is neither a cancel nor a
\* well-formed id
MalformedResume(r, gate) ==
    /\ ~IsCancel(runs[r].value)
    /\ ~IsUUID(runs[r].value)
    /\ Len(runs'[r].trace) = Len(runs[r].trace) + 1
    /\ LET e == runs'[r].trace[Len(runs'[r].trace)]
       IN  e.gate = gate /\ e.kind # "interrupt"

\* what holds of such a step at either gate: the value is ignored, nothing
\* is raised and the run goes on to the next node
IgnoredAndForward(r) ==
    /\ runs'[r].trace[Len(runs'[r].trace)].kind = "update"
    /\ runs'[r].vals.resolved_doc_ids = runs[r].vals.resolved_doc_ids
    /\ runs'[r].st = "running"
    /\ runs'[r].todo # {}
    /\ runs'[r].todo \cap {"intent_resolver", "doc_resolver"} = {}

\* C24 as stated: a resume value that is not a well-formed id, given to the
\* ask-for-tag gate or to the need-more-entities gate, is ignored: the
\* resolved ids are unchanged, inference_confidence is low afterwards, no
\* error is raised and the run continues.
C24_MalformedResumeIgnoredConfidenceLow ==
    [][\A r \in RunIds : \A gate \in {"ask_for_tag", "need_more_entities"} :
          MalformedResume(r, gate) =>
              /\ IgnoredAndForward(r)
              /\ runs'[r].vals.inference_confidence = "low"]_vars

\* C24 amended: the same, except that only the ask-for-tag gate leaves
\* inference_confidence low; the need-more-entities gate leaves it as
\* doc_resolver set it, which is high for a turn resolved from its tags.
C24_MalformedResumeIgnored ==
    [][\A r \in RunIds : \A gate \in {"ask_for_tag", "need_more_entities"} :
          MalformedResume(r, gate) =>
              /\ IgnoredAndForward(r)
              /\ runs'[r].vals.inference_confidence =
                    IF gate = "ask_for_tag" THEN "low"
                    ELSE runs[r].vals.inference_confidence]_vars

\* both gates have been resumed with a text that is not an id
C24_Witness ==
    \E r, q \in RunIds :
        /\ ~IsCancel(runs[r].value) /\ ~IsUUID(runs[r].value)
        /\ ~IsCancel(runs[q].value) /\ ~IsUUID(runs[q].value)
        /\ \E i \in 1..Len(runs[r].trace) :
              runs[r].trace[i].gate = "ask_for_tag" /\ runs[r].trace[i].kind = "update"
        /\ \E i \in 1..Len(runs[q].trace) :
              /\ runs[q].trace[i].gate = "need_more_entities"
              /\ runs[q].trace[i].kind = "update"

\* run r is about to enter doc_resolver for the first time on a turn that
\* is classified
EntersResolution(r) ==
    /\ runs[r].st = "running"
    /\ "doc_resolver" \in runs[r].todo
    /\ runs[r].resume = NoResume
    /\ CallsLLM("doc_resolver", runs[r].vals)

\* the gate at which doc_resolver suspends on `state', "" when it does not
GateFired(state, fresh) ==
    LET out == doc_resolver(state, NoResume, fresh, TRUE)
    IN  IF out.kind = "interrupt" THEN out.gate ELSE ""

\* C25: doc_resolver suspends at choose-one exactly when the confidence is
\* medium and at least one validated classifier id is not one of this turn's
\* explicit ids.
C25_ChooseOneIffNewSuggestion ==
    \A r \in RunIds :
        EntersResolution(r) =>
            LET res == DocResolve(runs[r].vals)
            IN  (GateFired(runs[r].vals, msgCtr) = "choose_one")
                    <=> ( /\ res.confidence = "medium"
                          /\ Range(res.validated_llm_uuids)
                                \ Range(res.explicit_uuids) # {} )

\* the step in which run r returns from its first pass through doc_resolver
\* without the classification call having failed
ResolutionPass(r) ==
    /\ runs[r].resume = NoResume
    /\ Len(runs'[r].trace) = Len(runs[r].trace) + 1
    /\ LET e == runs'[r].trace[Len(runs'[r].trace)]
       IN  e.node = "doc_resolver" /\ e.kind # "raise"

\* the last trace entry of run r is a suspension at the ask-for-tag gate
AskForTagFired(run) ==
    LET e == run.trace[Len(run.trace)]
    IN  e.kind = "interrupt" /\ e.gate = "ask_for_tag"

\* C26: a first pass through doc_resolver suspends at the ask-for-tag gate
\* if and only if the turn is classified with confidence low, some name is
\* still unresolved after the fuzzy fallback and no id is resolved; a turn
\* that carries an explicit tag id never suspends at that gate.
C26_AskForTagIffLowUnresolvedEmpty ==
    [][\A r \in RunIds :
        ResolutionPass(r) =>
            LET res == DocResolve(runs[r].vals)
            IN  /\ AskForTagFired(runs'[r])
                      <=> ( /\ CallsLLM("doc_resolver", runs[r].vals)
                            /\ res.confidence = "low"
                            /\ res.remaining_unresolved # <<>>
                            /\ res.merged_uuids = <<>> )
                /\ res.explicit_uuids # <<>> => ~AskForTagFired(runs'[r])]_vars

\* a turn tagging d1 whose text is classified with confidence low and leaves
\* a name unresolved has passed doc_resolver without suspending
C26_Witness ==
    \E r \in RunIds :
        /\ runs[r].vals.tiptap_json.mentions = <<"d1">>
        /\ runs[r].vals.inference_confidence = "low"
        /\ runs[r].vals.unresolved_names # <<>>
        /\ runs[r].vals.resolved_doc_ids = <<"d1">>
        /\ \E i \in 1..Len(runs[r].trace) :
              /\ runs[r].trace[i].node = "doc_resolver"
              /\ runs[r].trace[i].kind = "update"
              /\ runs[r].trace[i].gate = ""

\* the step in which run r returns from a pass through validate_inputs
ValidationPass(r) ==
    /\ Len(runs'[r].trace) = Len(runs[r].trace) + 1
    /\ runs'[r].trace[Len(runs'[r].trace)].node = "validate_inputs"

\* actual_docs < min_docs, after the set expansion (validate_inputs.py:82-118)
CountShort(state) ==
    LET action == IF state.action \in {None, ""} THEN "inquire" ELSE state.action
        set_doc_ids == IF state.set_id \notin {None, ""}
                       THEN SetDocs(state.set_id) ELSE <<>>
        merged == Dedup(state.resolved_doc_ids \o set_doc_ids)
        resolved_doc_ids == IF set_doc_ids # <<>> /\ merged # state.resolved_doc_ids
                            THEN merged ELSE state.resolved_doc_ids
    IN  Len(resolved_doc_ids) < MinDocs(action)

\* C27: a pass through validate_inputs goes through one gate at most.  When
\* the document count is short the pass is at the need-more-entities gate,
\* and a pass resumed there suspends no second time; the need-audit-text
\* gate is met only in a pass whose document count is sufficient.
C27_OneGatePerValidationPass ==
    [][\A r \in RunIds :
        ValidationPass(r) =>
            LET e == runs'[r].trace[Len(runs'[r].trace)]
                s == runs[r].vals
            IN  /\ CountShort(s) => e.gate = "need_more_entities"
                /\ CountShort(s) /\ runs[r].resume # NoResume => e.kind # "interrupt"
                /\ e.gate = "need_audit_text" =>
                      ~CountShort(s) /\ s.action = "audit" /\ IsAuditTextMissing(s)]_vars

\* an audit turn without audit text was resumed at the count gate with a
\* document id and left validate_inputs in that pass
C27_Witness ==
    \E r \in RunIds :
        /\ runs[r].vals.action = "audit"
        /\ IsAuditTextMissing(runs[r].vals)
        /\ runs[r].value = "d2"
        /\ runs[r].vals.resolved_doc_ids = <<"d2">>
        /\ \E i \in 1..Len(runs[r].trace) :
              /\ runs[r].trace[i].node = "validate_inputs"
              /\ runs[r].trace[i].gate = "need_more_entities"
              /\ runs[r].trace[i].kind = "update"

\* the step in which run r returns from intent_resolver
IntentPass(r) ==
    /\ Len(runs'[r].trace) = Len(runs[r].trace) + 1
    /\ runs'[r].trace[Len(runs'[r].trace)].node = "intent_resolver"

\* C28: on a turn whose request names an action, intent_resolver returns
\* without a classification call (its result does not depend on the
\* classifier being reachable) and without suspending, and the state it
\* leaves has that action and enable_web_search = the request's flag OR the
\* temporal keyword scan of the message.
C28_ExplicitActionSkipsClassification ==
    [][\A r \in RunIds :
        IntentPass(r) /\ runs[r].vals.action \notin {None, ""} =>
            LET e == runs'[r].trace[Len(runs'[r].trace)]
                s == runs[r].vals
            IN  /\ e.kind = "update" /\ e.gate = ""
                /\ intent_resolver(s, runs[r].resume, msgCtr, FALSE).kind = "update"
                /\ runs'[r].events[Len(runs'[r].events)].type = "status"
                /\ runs'[r].vals.action = s.action
                /\ runs'[r].vals.enable_web_search
                      = (s.enable_web_search \/ TemporalMatch(LastHumanText(s.messages)))]_vars

\* a summarize turn sent without the web flag whose message has a temporal
\* keyword has left intent_resolver with the flag set
C28_Witness ==
    \E r \in RunIds :
        /\ runs[r].trace # <<>>
        /\ runs[r].trace[1].node = "intent_resolver"
        /\ runs[r].trace[1].kind = "update"
        /\ runs[r].vals.action = "summarize"
        /\ runs[r].vals.tiptap_json.text = "q_low"
        /\ runs[r].vals.enable_web_search

\* run r is about to enter intent_resolver for the first time on a turn
\* whose request names no action
EntersClassification(r) ==
    /\ runs[r].st = "running"
    /\ "intent_resolver" \in runs[r].todo
    /\ runs[r].resume = NoResume
    /\ runs[r].vals.action \in {None, ""}

\* the classification the gates are meant to see: the classifier's answer
\* of pass 1, or of pass 2 when pass 1 has confidence low or medium
FinalClassification(text) ==
    LET pass1 == LLMIntent(text, 1)
    IN  IF pass1.confidence \in {"low", "medium"} THEN LLMIntent(text, 2) ELSE pass1

\* C30: with both classification calls answered, a turn without an action
\* suspends in intent_resolver if and only if the final classification
\* flags multi-action or has confidence low; it suspends at the multi-intent
\* gate whenever multi-action is flagged, and a final classification that is
\* not multi-action and has confidence high or medium returns an update.
C30_SuspendsIffMultiOrLow ==
    \A r \in RunIds :
        EntersClassification(r) =>
            LET out == intent_resolver(runs[r].vals, NoResume, msgCtr, TRUE)
                c == FinalClassification(LastHumanText(runs[r].vals.messages))
            IN  /\ out.kind = "interrupt"
                      <=> (c.multi_action_detected \/ c.confidence = "low")
                /\ c.multi_action_detected => out.gate = "multi_intent"
                /\ ~c.multi_action_detected /\ c.confidence \in {"high", "medium"}
                      => out.kind = "update"

\* ---------------------------------------------------------------------------
\* Single calls: a helper or a service function is called on one input, runs
\* to its result, and nothing else happens
\* ---------------------------------------------------------------------------

\* longest detected_actions list the classifier returns
MaxDetected == 3

\* all sequences over S of length at most n
SeqsUpTo(S, n) == UNION {[1..k -> S] : k \in 0..n}

\* detected_actions is a list[str] (intent_resolver.py:92-94): any string may
\* be in it, any number of times
DetectedStrings == {"summarize", "inquire", "compare", "translate"}

\* calls of the option construction of the multi-action gate
OptionCalls ==
    {[fn |-> "multi_action_options", pc |-> "called", in |-> d, out |-> <<>>] :
        d \in SeqsUpTo(DetectedStrings, MaxDetected)}

\* intent_resolver.py:193-202
BuildOptions ==
    /\ unit.fn = "multi_action_options"
    /\ unit.pc = "called"
    /\ unit' = [unit EXCEPT !.pc = "returned", !.out = MultiActionOptions(unit.in)]
    /\ UNCHANGED <<vars, store>>

\* longest unresolved_names list the classifier returns
MaxNames == 2

\* names the classifier leaves unresolved: one with a best score above the
\* threshold, one at it, one just below it, one far below it
FuzzyNames == {"n_hit", "n_edge", "n_near", "n_miss"}

\* what _fetch_user_docs returns: nothing (no document, or the read failed),
\* all the user's documents, one document
FetchedDocs == {<<>>, AllDocs, <<AllDocs[1]>>}

\* calls of Stage 3 with the ids merged so far, the classifier's unresolved
\* names and the fetched documents
FuzzyCalls ==
    {[fn |-> "fuzzy_stage", pc |-> "called",
      in |-> [merged_uuids |-> m, unresolved_names |-> n, all_docs |-> d],
      out |-> <<>>] :
        m \in {<<>>, <<"d3">>}, n \in SeqsUpTo(FuzzyNames, MaxNames), d \in FetchedDocs}

\* doc_resolver.py:350-365
RunFuzzyStage ==
    /\ unit.fn = "fuzzy_stage"
    /\ unit.pc = "called"
    /\ unit' = [unit EXCEPT !.pc = "returned",
                            !.out = FuzzyStage(unit.in.merged_uuids,
                                               unit.in.unresolved_names,
                                               unit.in.all_docs)]
    /\ UNCHANGED <<vars, store>>

\* what structured.invoke can do on one attempt: answer; answer with a
\* parsing_error; raise openai.RateLimitError, openai.APITimeoutError, another
\* openai.APIError, or an exception of another kind
Outcomes == {"ok", "parsing_error", "rate_limit", "timeout", "api_error", "other"}

\* the errors invoke_structured retries on
Retryable == {"rate_limit", "timeout"}

\* the retry decision reaching past the first attempt and to every APIError
AfterAttempt_RetryEveryApiError(attempt, outcome) ==
    CASE outcome = "ok" -> "return"
      [] outcome = "parsing_error" -> "raise RuntimeError"
      [] outcome \in Retryable \cup {"api_error"} ->
            IF attempt = 0 THEN "continue" ELSE "raise"
      [] OTHER -> "raise"

\* one pass of the loop body of invoke_structured (llm_service.py:138-165):
\* what the function does after attempt number `attempt' ended with `outcome'
AfterAttempt(attempt, outcome) ==
    CASE outcome = "ok" -> "return"
      [] outcome = "parsing_error" -> "raise RuntimeError"
      [] outcome \in Retryable -> IF attempt = 0 THEN "continue" ELSE "raise"
      [] outcome = "api_error" -> "raise RuntimeError"
      [] OTHER -> "raise"

\* calls of invoke_structured, by action type
ServiceCalls ==
    {[fn |-> "invoke_structured", pc |-> "called", in |-> t, out |-> "",
      attempt |-> 0, history |-> <<>>] :
        t \in {"intent", "doc_resolution", "translate"}}

\* _model_for (llm_service.py:93-100, 135): an unknown action type raises
\* before any attempt
ModelFor ==
    /\ unit.fn = "invoke_structured"
    /\ unit.pc = "called"
    /\ unit' = IF unit.in \in {"intent", "doc_resolution", "query_rewrite",
                               "summarize", "inquire", "compare", "audit"}
               THEN [unit EXCEPT !.pc = "loop"]
               ELSE [unit EXCEPT !.pc = "raised", !.out = "ValueError"]
    /\ UNCHANGED <<vars, store>>

\* one iteration of `for attempt in range(2)' (llm_service.py:138-167)
Attempt(outcome) ==
    /\ unit.fn = "invoke_structured"
    /\ unit.pc = "loop"
    /\ LET after == AfterAttempt(unit.attempt, outcome)
           tried == [unit EXCEPT !.history = Append(@, outcome)]
       IN  unit' =
             CASE unit.attempt >= 2 ->
                    [unit EXCEPT !.pc = "raised", !.out = "RuntimeError"]
               [] after = "return" -> [tried EXCEPT !.pc = "returned", !.out = "LLMResult"]
               [] after = "continue" -> [tried EXCEPT !.attempt = @ + 1]
               [] after = "raise RuntimeError" ->
                    [tried EXCEPT !.pc = "raised", !.out = "RuntimeError"]
               [] OTHER -> [tried EXCEPT !.pc = "raised", !.out = outcome]
    /\ UNCHANGED <<vars, store>>

\* the ready documents _fetch_set_doc_ids can find in one set at different
\* times (validate_inputs.py:36-51): documents of the set become ready, are
\* deleted or moved, and a failed read returns []
SetReads == {<<>>, <<"d2">>, <<"d2", "d3">>}

\* resume values sent to a validate_inputs suspension: a document id, a
\* short text and a text long enough to be audited
GateResumeValues == {"d1", OtherUserDoc, "junk", "q_long"}

\* states in which validate_inputs runs: an action that needs documents,
\* a set named by the request, the resolved ids and the user's text
GateStates ==
    {[EmptyState EXCEPT !.action = a, !.set_id = "s1", !.resolved_doc_ids = ids,
                        !.messages = <<HumanMessage(1, text)>>,
                        !.tiptap_json = [mentions |-> ids, text |-> text]] :
        a \in {"summarize", "compare", "audit"},
        ids \in {<<>>, <<"d1">>},
        text \in {"tags", "q_long"}}

\* one pass of validate_inputs, and its replay after a resume
\* (validate_inputs.py:73-195): the state of the checkpoint, the rows the
\* set read returns at the first pass and at the replay, the resume value
GateCalls ==
    {[fn |-> "validate_inputs", pc |-> "call",
      in |-> [state |-> st, set_first |-> s1, set_replay |-> s2, value |-> v],
      first |-> Raise, out |-> Raise] :
        st \in GateStates, s1 \in SetReads, s2 \in SetReads, v \in GateResumeValues}

\* the first pass of the node on the checkpoint's state
ValidateFirstPass ==
    /\ unit.fn = "validate_inputs" /\ unit.pc = "call"
    /\ LET out == validate_inputs_on(unit.in.state, unit.in.set_first, NoResume, 2)
       IN  unit' = [unit EXCEPT !.pc = IF out.kind = "interrupt"
                                       THEN "suspended" ELSE "returned",
                                !.first = out]
    /\ UNCHANGED <<vars, store>>

\* the replay of the node after POST /resume: the node runs again from its
\* start on the same checkpoint state, the set is read again, and the first
\* interrupt() it reaches returns the resume value
ValidateReplay ==
    /\ unit.fn = "validate_inputs" /\ unit.pc = "suspended"
    /\ unit' = [unit EXCEPT !.pc = "resumed",
                            !.out = validate_inputs_on(unit.in.state, unit.in.set_replay,
                                                       unit.in.value, 2)]
    /\ UNCHANGED <<vars, store>>

InitUnit ==
    /\ ckpt = [id |-> 0, vals |-> EmptyState, next |-> {}, done |-> <<>>, intr |-> <<>>]
    /\ runs = [r \in RunIds |-> IdleRun]
    /\ msgCtr = 1
    /\ store = NoStore
    /\ unit \in OptionCalls \cup FuzzyCalls \cup ServiceCalls \cup GateCalls

NextUnit ==
    \/ BuildOptions
    \/ RunFuzzyStage
    \/ ModelFor
    \/ \E outcome \in Outcomes : Attempt(outcome)
    \/ ValidateFirstPass
    \/ ValidateReplay

SpecUnit == InitUnit /\ [][NextUnit]_<<vars, others>>

Matches(name, all_docs) ==
    \E i \in 1..Len(all_docs) : WRatio(name, all_docs[i].title) >= FUZZY_THRESHOLD

\* the ids of the fetched titles that score highest against a name
BestIds(name, all_docs) ==
    {all_docs[i].id : i \in {k \in 1..Len(all_docs) :
        \A j \in 1..Len(all_docs) :
            WRatio(name, all_docs[k].title) >= WRatio(name, all_docs[j].title)}}

\* C32: the fuzzy fallback runs only on a non-empty list of unresolved
\* names, and it partitions them: a name with a best score of at least 85
\* has its best match in the resolved ids and is not left unresolved, a
\* name with a lower best score (or with no document to match) stays
\* unresolved and adds no id; every name goes exactly one of the two ways.
C32_FuzzyFallbackPartitions ==
    (unit.fn = "fuzzy_stage" /\ unit.pc = "returned") =>
        LET names == unit.in.unresolved_names
            docs == unit.in.all_docs
            hit == {i \in 1..Len(names) : Matches(names[i], docs)}
        IN  /\ unit.out.ran => names # <<>>
            /\ ~unit.out.ran => /\ unit.out.merged_uuids = unit.in.merged_uuids
                                /\ unit.out.remaining_unresolved = names
            /\ \A i \in hit :
                  /\ Range(unit.out.merged_uuids) \cap BestIds(names[i], docs) # {}
                  /\ names[i] \notin Range(unit.out.remaining_unresolved)
            /\ \A i \in (1..Len(names)) \ hit :
                  names[i] \in Range(unit.out.remaining_unresolved)
            /\ Len(unit.out.fuzzy_uuids) = Cardinality(hit)
            /\ Len(unit.out.remaining_unresolved) = Len(names) - Cardinality(hit)
            /\ Range(unit.out.merged_uuids) =
                  Range(unit.in.merged_uuids) \cup Range(unit.out.fuzzy_uuids)

\* the fallback has matched a name at the threshold and left one just below
\* it unresolved
C32_Witness ==
    /\ unit.fn = "fuzzy_stage" /\ unit.pc = "returned"
    /\ unit.in.unresolved_names = <<"n_near", "n_edge">>
    /\ unit.in.all_docs = AllDocs
    /\ unit.out.merged_uuids = <<"d2">>
    /\ unit.out.remaining_unresolved = <<"n_near">>

\* the call has ended
CallEnded == unit.fn = "invoke_structured" /\ unit.pc \in {"returned", "raised"}

\* C33: a call makes at most two attempts; it makes a second one exactly
\* when the first failed with a rate-limit or timeout error; it returns
\* when its last attempt succeeded and raises otherwise, so any other error
\* and any error of the second attempt ends the call.
C33_AtMostOneRetry ==
    /\ unit.fn = "invoke_structured" => Len(unit.history) <= 2
    /\ CallEnded =>
          LET h == unit.history
          IN  /\ Len(h) = 2 <=> (h # <<>> /\ h[1] \in Retryable)
              /\ unit.pc = "returned" <=> (h # <<>> /\ h[Len(h)] = "ok")
              /\ h = <<>> => unit.in = "translate"
    /\ (unit.fn = "invoke_structured" /\ unit.pc = "loop") =>
          \/ unit.history = <<>>
          \/ Len(unit.history) = 1 /\ unit.history[1] \in Retryable

\* a rate-limit error, one retry, a timeout, and the call has raised
C33_Witness ==
    /\ CallEnded
    /\ unit.history = <<"rate_limit", "timeout">>
    /\ unit.pc = "raised"

\* the Action Executors that ran in run r
ExecutorsRun(r) ==
    {runs[r].trace[i].node : i \in 1..Len(runs[r].trace)} \cap ValidActions

\* the actions format_response of run r stamped on the assistant message
StampedActions(r) ==
    IF /\ "format_response" \in DOMAIN runs[r].done
       /\ "messages" \in DOMAIN runs[r].done["format_response"].upd
    THEN {runs[r].done["format_response"].upd.messages[i].kwargs.action :
             i \in 1..Len(runs[r].done["format_response"].upd.messages)}
    ELSE {}

\* C34: the action of a final response, and the action stamped on the
\* assistant message, is one of the four valid actions, and an executor that
\* ran in the run is the one it names.
C34_ReportedActionIsTheExecutor ==
    \A r \in RunIds :
        \A i \in 1..Len(runs[r].events) :
            runs[r].events[i].type = "response" =>
                /\ runs[r].events[i].action \in ValidActions
                /\ StampedActions(r) \subseteq {runs[r].events[i].action}
                /\ ExecutorsRun(r) \subseteq {runs[r].events[i].action}

\* doc_resolver of run r finishes, in this step, the resume of a suspension
\* at its choose-one gate
ChooseOneResumed(r) ==
    /\ runs[r].resume # NoResume
    /\ Len(runs'[r].trace) = Len(runs[r].trace) + 1
    /\ LET e == runs'[r].trace[Len(runs'[r].trace)]
       IN  e.node = "doc_resolver" /\ e.kind = "update" /\ e.gate = "choose_one"

\* the resolved ids in the state of a run, the writes of its finished tasks
\* applied
ResolvedIds(run) == Range(ApplyWrites(run.vals, run.done).resolved_doc_ids)

\* C35: after the resume of a choose-one suspension every resolved id is an
\* explicit one, a validated suggested one or a fuzzy-matched one; a resume
\* value that is neither "all" nor an offered id is not among the resolved ids.
C35_ChooseOneResolvesOfferedOnly ==
    [][\A r \in RunIds :
        ChooseOneResumed(r) =>
            LET res == DocResolve(runs[r].vals)
                offered == Range(res.suggested_doc_ids) \cup {"all"}
            IN  /\ ResolvedIds(runs'[r]) \subseteq
                       Range(res.explicit_uuids) \cup Range(res.validated_llm_uuids)
                           \cup Range(FuzzyStage(<<>>, LLMDocResolution(
                                   IF runs[r].vals.messages # <<>>
                                   THEN runs[r].vals.messages[Len(runs[r].vals.messages)].content
                                   ELSE runs[r].vals.tiptap_json.text).unresolved_names,
                                   AllDocs).fuzzy_uuids)
                /\ runs[r].value \notin offered => runs[r].value \notin ResolvedIds(runs'[r])]_vars


\* C36: a resume value is consumed by the gate that issued the suspension,
\* also when the documents of the set changed in between; an id sent in
\* answer to need-more-entities is not appended as the audit text.
C36_ResumeConsumedByIssuingGate ==
    (unit.fn = "validate_inputs" /\ unit.pc = "resumed") =>
        /\ unit.out.gate = unit.first.gate
        /\ (unit.first.gate = "need_more_entities" /\ IsUUID(unit.in.value)) =>
              ~ ( /\ "messages" \in DOMAIN unit.out.upd
                  /\ \E i \in 1..Len(unit.out.upd.messages) :
                        /\ unit.out.upd.messages[i].role = "human"
                        /\ unit.out.upd.messages[i].content = unit.in.value )

\* the audit executor of run r runs in this step
AuditRuns(r) ==
    /\ Len(runs'[r].trace) = Len(runs[r].trace) + 1
    /\ runs'[r].trace[Len(runs'[r].trace)].node = "audit"

\* validate_inputs took, earlier in run r, the resume branch of its
\* need-audit-text gate
AuditTextSupplied(r) ==
    \E i \in 1..Len(runs[r].trace) :
        /\ runs[r].trace[i].node = "validate_inputs"
        /\ runs[r].trace[i].kind = "update"
        /\ runs[r].trace[i].gate = "need_audit_text"

\* C37: the audit executor runs only when audit text is available: the last
\* user message has at least 50 characters once its mention tokens are
\* stripped, or the text was supplied through a need-audit-text resume
\* earlier in the same run.
C37_AuditOnlyWithText ==
    [][\A r \in RunIds :
        AuditRuns(r) =>
            \/ ~IsAuditTextMissing(runs[r].vals)
            \/ AuditTextSupplied(r)]_vars


\* C38: the state of a thread holds documents of the thread's user only:
\* another user's document id is neither among the resolved ids nor in the
\* registry of the checkpoint.
C38_OnlyOwnDocumentsInState ==
    /\ OtherUserDoc \notin Range(ckpt.vals.resolved_doc_ids)
    /\ OtherUserDoc \notin DictValues(ckpt.vals.conversation_docs)

\* ---------------------------------------------------------------------------
\* Document ingestion (routers/documents.py)
\* ---------------------------------------------------------------------------

\* requests the router serves, possibly at the same time
MaxRequests == 3

\* the requests; a document's id is the number of the ingest request that
\* generated it (uuid.uuid4(), documents.py:83)
RequestIds == 1..MaxRequests

\* user ids the proxy injects into a request (documents.py:48, 169)
Users == {"u1", "u2"}

\* len(extract_and_chunk(file_bytes)) of the uploaded file: the pipeline is
\* a function of the stored bytes (documents.py:115, 222)
ChunksOfFile == 2

\* no row of table documents has this id
NoRow == [status |-> "none", user_id |-> "", chunk_count |-> 0, file |-> FALSE]

\* a request that has not started
IdleRequest == [kind |-> "", user |-> "", doc |-> 0, pc |-> "idle", result |-> ""]

\* the rows of table chunks that belong to a document
ChunksOfDoc(d) == {c \in store.chunks : c.document_id = d}

\* the rows one processing run inserts (documents.py:119-129, 226-236);
\* `run' stands for the generated primary keys, which tell the rows of two
\* runs apart
ChunkRecords(p, d) ==
    {[document_id |-> d, run |-> p, chunk_index |-> i] : i \in 0..(ChunksOfFile - 1)}

\* the request ends: it returns a response or raises
Ended(p, result) ==
    unit' = [unit EXCEPT !.reqs[p].pc = "ended", !.reqs[p].result = result]

\* the handler goes on to its next store operation
Goto(p, pc) == unit' = [unit EXCEPT !.reqs[p].pc = pc]

\* POST /ingest up to the insert of the document row (documents.py:62-100)
IngestCreate(p, valid, ok) ==
    /\ unit.reqs[p].pc = "idle"
    /\ IF ~valid
       THEN /\ unit' = [unit EXCEPT !.reqs[p] = [IdleRequest EXCEPT !.kind = "ingest",
                                     !.user = "u1", !.pc = "ended", !.result = "400"]]
            /\ UNCHANGED store
       ELSE IF ~ok
       THEN /\ unit' = [unit EXCEPT !.reqs[p] = [IdleRequest EXCEPT !.kind = "ingest",
                                     !.user = "u1", !.pc = "ended", !.result = "500"]]
            /\ UNCHANGED store
       ELSE /\ unit' = [unit EXCEPT !.reqs[p] = [IdleRequest EXCEPT !.kind = "ingest",
                                     !.user = "u1", !.doc = p, !.pc = "upload"]]
            /\ store' = [store EXCEPT !.docs[p] =
                            [status |-> "processing", user_id |-> "u1",
                             chunk_count |-> 0, file |-> FALSE]]
    /\ UNCHANGED vars

\* upload_file (documents.py:102-111)
IngestUpload(p, ok) ==
    /\ unit.reqs[p].pc = "upload"
    /\ IF ok
       THEN /\ store' = [store EXCEPT !.docs[unit.reqs[p].doc].file = TRUE]
            /\ Goto(p, "process")
       ELSE /\ UNCHANGED store
            /\ Goto(p, "set_failed")
    /\ UNCHANGED vars

\* POST /retry up to the check of the stored file (documents.py:174-209):
\* the row is read once, and the request goes on only for a failed
\* document of the caller whose file is in storage
RetryFetch(p, d, u, ok) ==
    /\ unit.reqs[p].pc = "idle"
    /\ LET doc == store.docs[d]
           req == [IdleRequest EXCEPT !.kind = "retry", !.user = u, !.doc = d]
       IN  unit' = [unit EXCEPT !.reqs[p] =
               IF ~ok THEN [req EXCEPT !.pc = "ended", !.result = "500"]
               ELSE IF doc.status = "none" THEN [req EXCEPT !.pc = "ended", !.result = "404"]
               ELSE IF doc.user_id # u THEN [req EXCEPT !.pc = "ended", !.result = "403"]
               ELSE IF doc.status # "failed" THEN [req EXCEPT !.pc = "ended", !.result = "400"]
               ELSE IF ~doc.file THEN [req EXCEPT !.pc = "ended", !.result = "404"]
               ELSE [req EXCEPT !.pc = "mark"]]
    /\ UNCHANGED <<vars, store>>

\* the update to status processing (documents.py:211-214), outside any try
RetryMark(p, ok) ==
    /\ unit.reqs[p].pc = "mark"
    /\ IF ok
       THEN /\ store' = [store EXCEPT !.docs[unit.reqs[p].doc].status = "processing"]
            /\ Goto(p, "delete")
       ELSE /\ UNCHANGED store
            /\ Ended(p, "500")
    /\ UNCHANGED vars

\* the delete of the document's chunks (documents.py:216-217), outside any try
RetryDelete(p, ok) ==
    /\ unit.reqs[p].pc = "delete"
    /\ IF ok
       THEN /\ store' = [store EXCEPT !.chunks = @ \ ChunksOfDoc(unit.reqs[p].doc)]
            /\ Goto(p, "process")
       ELSE /\ UNCHANGED store
            /\ Ended(p, "500")
    /\ UNCHANGED vars

\* download, extract, chunk, embed (documents.py:115-129, 221-236)
Process(p, outcome) ==
    /\ unit.reqs[p].pc = "process"
    /\ Goto(p, IF outcome = "ok" THEN "insert" ELSE "set_failed")
    /\ UNCHANGED <<vars, store>>

\* the batch insert of the chunks (documents.py:132, 238)
InsertChunks(p, ok) ==
    /\ unit.reqs[p].pc = "insert"
    /\ IF ok
       THEN /\ store' = [store EXCEPT !.chunks = @ \cup ChunkRecords(p, unit.reqs[p].doc)]
            /\ Goto(p, "ready")
       ELSE /\ UNCHANGED store
            /\ Goto(p, "set_failed")
    /\ UNCHANGED vars

\* the update to status ready and the response (documents.py:135-144, 239-248)
MarkReady(p, ok) ==
    /\ unit.reqs[p].pc = "ready"
    /\ IF ok
       THEN /\ store' = [store EXCEPT !.docs[unit.reqs[p].doc].status = "ready",
                                      !.docs[unit.reqs[p].doc].chunk_count = ChunksOfFile]
            /\ Ended(p, "ready")
       ELSE /\ UNCHANGED store
            /\ Goto(p, "set_failed")
    /\ UNCHANGED vars

\* _set_failed in an except branch, then the failed response
\* (documents.py:38-42, 105-111, 146-165, 250-268); its own update is not
\* guarded, so when it fails the request ends with the exception
SetFailed(p, ok) ==
    /\ unit.reqs[p].pc = "set_failed"
    /\ IF ok
       THEN /\ store' = [store EXCEPT !.docs[unit.reqs[p].doc].status = "failed"]
            /\ Ended(p, "failed")
       ELSE /\ UNCHANGED store
            /\ Ended(p, "500")
    /\ UNCHANGED vars

InitDocs ==
    /\ ckpt = [id |-> 0, vals |-> EmptyState, next |-> {}, done |-> <<>>, intr |-> <<>>]
    /\ runs = [r \in RunIds |-> IdleRun]
    /\ msgCtr = 1
    /\ store = [docs |-> [d \in RequestIds |-> NoRow], chunks |-> {}]
    /\ unit = [fn |-> "documents", reqs |-> [p \in RequestIds |-> IdleRequest]]

NextDocs ==
    \E p \in RequestIds :
        \/ \E valid \in BOOLEAN, ok \in BOOLEAN : IngestCreate(p, valid, ok)
        \/ \E ok \in BOOLEAN : IngestUpload(p, ok)
        \/ \E d \in RequestIds, u \in Users, ok \in BOOLEAN : RetryFetch(p, d, u, ok)
        \/ \E ok \in BOOLEAN : RetryMark(p, ok)
        \/ \E ok \in BOOLEAN : RetryDelete(p, ok)
        \/ \E outcome \in {"ok", "value_error", "error"} : Process(p, outcome)
        \/ \E ok \in BOOLEAN : InsertChunks(p, ok)
        \/ \E ok \in BOOLEAN : MarkReady(p, ok)
        \/ \E ok \in BOOLEAN : SetFailed(p, ok)

SpecDocs == InitDocs /\ [][NextDocs]_<<vars, others>>

\* a request for document d is between its first store operation and its end
InFlight(d) ==
    \E p \in RequestIds : unit.reqs[p].doc = d /\ unit.reqs[p].pc \notin {"idle", "ended"}

\* C39: once every ingest or retry request for a document has ended, the
\* document's status is ready or failed, never processing.
C39_EndedRequestsLeaveReadyOrFailed ==
    \A d \in RequestIds :
        (store.docs[d].status # "none" /\ ~InFlight(d)) =>
            store.docs[d].status \in {"ready", "failed"}

\* C40: whenever a document is ready, its stored chunks are the chunks of
\* one processing run and chunk_count is the number of stored chunk rows.
C40_ReadyDocumentHasOneRunOfChunks ==
    \A d \in RequestIds :
        store.docs[d].status = "ready" =>
            /\ \E p \in RequestIds : ChunksOfDoc(d) = ChunkRecords(p, d)
            /\ store.docs[d].chunk_count = Cardinality(ChunksOfDoc(d))

====
